---- MODULE Spec2Model ----
(***************************************************************************)
(* Model of the VECTOR scoring / selection pipeline (src/src/vector).      *)
(*                                                                         *)
(* Three specifications share the variables below:                         *)
(*   SpecSelect  the selector (plugins/selector.py, audience/build.py,     *)
(*               utils.round_robin_by_group) applied to any score table;   *)
(*   SpecScore   the scorer (plugins/linear_scorer.py, utils.minmax_scale) *)
(*               applied to any accounts / centrality / stats / config;    *)
(*   Spec        pipeline.run_pipeline as a step-by-step process, followed *)
(*               by the re-rank entry points (pipeline.rank_issue, the     *)
(*               HTTP handler of service.py, the CLI command of cli.py).   *)
(*                                                                         *)
(* Numbers: Python floats are modelled as exact rationals <<n, d>>, d > 0, *)
(* kept in lowest terms.  Strings that the code inspects (issue names,     *)
(* keywords, texts) are sequences of one-character strings.                *)
(***************************************************************************)
EXTENDS Integers, Sequences, FiniteSets, TLC

VARIABLES
    scores_df,  \* selector: the score table handed to select (a sequence of rows)
    sel_call,   \* selector: arguments of the last call (issue, k, diverse)
    sel_out,    \* selector: rows returned by the last call (indices into scores_df)
    sc_in,      \* scorer: users, pagerank, communities, user_issue_stats, config
    sc_out,     \* scorer: outcome of the last score() call
    inp,        \* pipeline: the input files and the configuration of the run
    pc,         \* pipeline: position inside run_pipeline
    loc,        \* pipeline: local variables of run_pipeline
    disk,       \* pipeline: files of out_dir (issue_scores.csv, state.json)
    mem,        \* re-rank: the state object an entry point has loaded
    resp,       \* re-rank: the response of the last re-rank request
    memo,       \* re-rank: first result returned for each (issue, k, diverse)
    log,        \* pipeline: log records emitted
    ties,       \* selector: where the build's quicksort leaves equal scores
    tag_in,     \* tagger: the content table and the taxonomy file
    tag_out     \* tagger: the map returned by the last tag_posts_by_issue call

vars == <<scores_df, sel_call, sel_out, sc_in, sc_out, inp, pc, loc, disk, mem, resp, memo, log, ties, tag_in, tag_out>>

selVars == <<scores_df, sel_call, sel_out>>
scVars == <<sc_in, sc_out>>
tagVars == <<tag_in, tag_out>>
pipeVars == <<inp, pc, loc, disk, mem, resp, memo, log>>

\* Placeholder value of the variables a specification does not use.
Unused == <<"unused">>

----------------------------------------------------------------------------
(* Generic helpers                                                         *)

Range(s) == {s[i] : i \in 1..Len(s)}

RECURSIVE SeqSum(_)
SeqSum(s) == IF s = <<>> THEN 0 ELSE Head(s) + SeqSum(Tail(s))

\* All sequences over S of length 0..n.
SeqsUpTo(S, n) == UNION {[1..m -> S] : m \in 0..n}

Prefix(s, n) == SubSeq(s, 1, IF n < Len(s) THEN n ELSE Len(s))

Min2(a, b) == IF a <= b THEN a ELSE b

\* The counters of an (account, issue) pair without an entry.
NoStat == [count |-> 0, eng_sum |-> 0]

\* The sequence f with its elements computed once.
Vec(f) == <<>> \o f

\* A row's community as the scorer emits it (linear_scorer.py:55): an int or None.
NoneCell == <<"None", 0>>
IntCell(c) == <<"int", c>>

----------------------------------------------------------------------------
(* Rationals: Python floats as exact fractions <<n, d>> in lowest terms    *)

Abs(a) == IF a < 0 THEN -a ELSE a

RECURSIVE GCD(_, _)
GCD(a, b) == IF b = 0 THEN a ELSE GCD(b, a % b)

Rat(n, d) == LET g == GCD(Abs(n), d) IN <<n \div g, d \div g>>

Zero == <<0, 1>>
One == <<1, 1>>
Half == <<1, 2>>
FromInt(n) == <<n, 1>>

RatLT(a, b) == a[1] * b[2] < b[1] * a[2]
RatLE(a, b) == a[1] * b[2] <= b[1] * a[2]
RatAdd(a, b) == Rat(a[1] * b[2] + b[1] * a[2], a[2] * b[2])
RatSub(a, b) == Rat(a[1] * b[2] - b[1] * a[2], a[2] * b[2])
RatMul(a, b) == Rat(a[1] * b[1], a[2] * b[2])
\* a / b for b > 0.
RatDiv(a, b) == Rat(a[1] * b[2], a[2] * b[1])

RatMin(x) == CHOOSE m \in Range(x) : \A y \in Range(x) : RatLE(m, y)
RatMax(x) == CHOOSE m \in Range(x) : \A y \in Range(x) : RatLE(y, m)

----------------------------------------------------------------------------
(* utils.minmax_scale                                                      *)

\* The tolerance 1e-12 of utils.py:8 is TolRoot^-2.
TolRoot == 1000000

\* mx - mn < 1e-12 for a fraction r = n/d >= 0:  n * 10^12 < d, computed
\* without leaving 32-bit integers as  n * 10^6 <= (d - 1) div 10^6.
BelowTolerance(r) == r[1] * TolRoot <= (r[2] - 1) \div TolRoot

minmax_scale_half(x) ==
    IF Len(x) = 0 THEN <<>>
    ELSE LET mn == RatMin(x)
             mx == RatMax(x)
         IN IF BelowTolerance(RatSub(mx, mn))
            THEN [i \in 1..Len(x) |-> Half]
            ELSE [i \in 1..Len(x) |-> RatDiv(RatSub(x[i], mn), RatSub(mx, mn))]

minmax_scale_no_shift(x) ==
    IF Len(x) = 0 THEN <<>>
    ELSE LET mn == RatMin(x)
             mx == RatMax(x)
         IN IF BelowTolerance(RatSub(mx, mn))
            THEN [i \in 1..Len(x) |-> Zero]
            ELSE [i \in 1..Len(x) |-> RatDiv(x[i], RatSub(mx, mn))]

minmax_scale(x) ==
    IF Len(x) = 0 THEN <<>>
    ELSE LET mn == RatMin(x)
             mx == RatMax(x)
         IN IF BelowTolerance(RatSub(mx, mn))
            THEN [i \in 1..Len(x) |-> Zero]
            ELSE [i \in 1..Len(x) |-> RatDiv(RatSub(x[i], mn), RatSub(mx, mn))]

----------------------------------------------------------------------------
(* Issue names: sequences of characters, ordered as Python orders strings  *)

Ord(c) == CASE c = " " -> 32 [] c = "E" -> 69 [] c = "S" -> 83 [] c = "X" -> 88
            [] c = "Y" -> 89 [] c = "_" -> 95 [] c = "e" -> 101 [] c = "s" -> 115
            [] c = "x" -> 120 [] c = "y" -> 121 [] OTHER -> 122

RECURSIVE StrLess(_, _)
StrLess(a, b) ==
    IF b = <<>> THEN FALSE
    ELSE IF a = <<>> THEN TRUE
    ELSE IF Ord(Head(a)) # Ord(Head(b)) THEN Ord(Head(a)) < Ord(Head(b))
    ELSE StrLess(Tail(a), Tail(b))

\* sorted(S) for a set of strings.
RECURSIVE SortedStrs(_)
SortedStrs(S) ==
    IF S = {} THEN <<>>
    ELSE LET m == CHOOSE a \in S : \A b \in S : a = b \/ StrLess(a, b)
         IN <<m>> \o SortedStrs(S \ {m})

----------------------------------------------------------------------------
(* Text: str.lower, " ".join, substring test and the regex \bkw\b          *)

\* str.lower on the model's alphabet.
Lower(c) == CASE c = "E" -> "e" [] c = "S" -> "s" [] c = "X" -> "x" [] c = "Y" -> "y"
              [] OTHER -> c

LowerStr(t) == [i \in 1..Len(t) |-> Lower(t[i])]

\* \w of the regex: letters, digits and "_"; the space is the only other
\* character of the alphabet.
IsWordChar(c) == c # " "

\* " ".join(texts)
RECURSIVE JoinSpace(_)
JoinSpace(texts) ==
    IF texts = <<>> THEN <<>>
    ELSE IF Len(texts) = 1 THEN texts[1]
    ELSE texts[1] \o <<" ">> \o JoinSpace(Tail(texts))

MatchAt(kw, text, p) ==
    /\ p + Len(kw) - 1 <= Len(text)
    /\ \A i \in 1..Len(kw) : text[p + i - 1] = kw[i]

\* kw in text
Contains(kw, text) == \E p \in 1..(Len(text) + 1) : MatchAt(kw, text, p)

\* \b between positions p-1 and p of text.
WordBoundary(text, p) ==
    LET before == p > 1 /\ IsWordChar(text[p - 1])
        after == p <= Len(text) /\ IsWordChar(text[p])
    IN before # after

\* re.search(r"\b" + re.escape(kw) + r"\b", text)
SearchWord(kw, text) ==
    \E p \in 1..(Len(text) + 1) :
        /\ MatchAt(kw, text, p)
        /\ WordBoundary(text, p)
        /\ WordBoundary(text, p + Len(kw))

----------------------------------------------------------------------------
(* compliance/policies.py                                                  *)


\* policies.py:10  kw.lower()
SearchedKeyword(kw) == LowerStr(kw)


\* policies.py:8  joined = " ".join(texts).lower()
Joined(texts) == LowerStr(JoinSpace(texts))

\* assert_non_political: the position in deny_keywords of the first keyword
\* found (ComplianceError is raised for it), 0 when none is found.
assert_non_political(texts, deny_keywords) ==
    LET hits == {j \in 1..Len(deny_keywords) :
                    SearchWord(SearchedKeyword(deny_keywords[j]), Joined(texts))}
    IN IF hits = {} THEN 0 ELSE CHOOSE j \in hits : \A h \in hits : j <= h

----------------------------------------------------------------------------
(* ingestion/adapters.py                                                   *)

RequiredPostsNoText == {"post_id", "user_id"}

\* adapters.py:5, 16, 24
RequiredUsers == {"user_id", "handle"}
RequiredEdges == {"src_user_id", "dst_user_id"}
RequiredPosts == {"post_id", "user_id", "text"}

\* missing = required - set(df.columns)
Missing(required, cols) == required \ cols

\* load_users: followers defaults to 0 when the column is absent.
load_users(table) ==
    [cols |-> table.cols \cup {"followers"},
     rows |-> [i \in 1..Len(table.rows) |->
                 IF "followers" \in table.cols THEN table.rows[i]
                 ELSE [table.rows[i] EXCEPT !.followers = 0]]]

\* load_posts: likes, shares and comments default to 0 when absent.
load_posts(table) ==
    [cols |-> table.cols \cup {"likes", "shares", "comments"},
     rows |-> [i \in 1..Len(table.rows) |->
                 [table.rows[i] EXCEPT
                    !.likes = IF "likes" \in table.cols THEN @ ELSE 0,
                    !.shares = IF "shares" \in table.cols THEN @ ELSE 0,
                    !.comments = IF "comments" \in table.cols THEN @ ELSE 0]]]

----------------------------------------------------------------------------
(* nlp/topics.py and plugins/keyword.py                                    *)

\* load_taxonomy: keywords are lower-cased, issue names are kept as written.
load_taxonomy(tax) ==
    [q \in 1..Len(tax) |->
        [name |-> tax[q].name,
         kws |-> [j \in 1..Len(tax[q].kws) |-> LowerStr(tax[q].kws[j])]]]

TaxonomyKeys(taxonomy) == [q \in 1..Len(taxonomy) |-> taxonomy[q].name]

\* An empty text cell of posts.csv: pd.read_csv stores it as the float NaN.
NaNCell == <<"NaN">>

\* str(row["text"]) (keyword.py:8, topics.py:15): str(float("nan")) is "nan".
StrOfText(text) == IF text = NaNCell THEN <<"n", "a", "n">> ELSE text

\* matched: the issues, in taxonomy order, one of whose keywords is in the
\* lower-cased text (keyword.py:8-12).
RECURSIVE Matched(_, _)
Matched(text, taxonomy) ==
    IF taxonomy = <<>> THEN <<>>
    ELSE LET issue == Head(taxonomy)
             rest == Matched(text, Tail(taxonomy))
         IN IF \E j \in 1..Len(issue.kws) : Contains(issue.kws[j], LowerStr(StrOfText(text)))
            THEN <<issue.name>> \o rest ELSE rest

\* KeywordTagger.tag_posts_by_issue: idx_to_issues[str(post_id)] = matched; a
\* later row with the same post_id overwrites the entry.
tag_posts_by_issue(posts, taxonomy) ==
    [pid \in {posts[i].post_id : i \in 1..Len(posts)} |->
        LET last == CHOOSE i \in 1..Len(posts) :
                        /\ posts[i].post_id = pid
                        /\ \A j \in 1..Len(posts) : posts[j].post_id = pid => j <= i
        IN Matched(posts[last].text, taxonomy)]

AddStatLastWins(stats, uid, issue, eng) ==
    LET old == IF uid \in DOMAIN stats THEN stats[uid] ELSE <<>>
        cur == IF issue \in DOMAIN old THEN old[issue] ELSE NoStat
        upd == [count |-> cur.count + 1, eng_sum |-> eng]
        new == [iss \in DOMAIN old \cup {issue} |-> IF iss = issue THEN upd ELSE old[iss]]
    IN [u \in DOMAIN stats \cup {uid} |-> IF u = uid THEN new ELSE stats[u]]

\* per_user[uid][issue]["count"] += 1.0; ["eng_sum"] += eng
AddStat(stats, uid, issue, eng) ==
    LET old == IF uid \in DOMAIN stats THEN stats[uid] ELSE <<>>
        cur == IF issue \in DOMAIN old THEN old[issue] ELSE NoStat
        upd == [count |-> cur.count + 1, eng_sum |-> cur.eng_sum + eng]
        new == [iss \in DOMAIN old \cup {issue} |-> IF iss = issue THEN upd ELSE old[iss]]
    IN [u \in DOMAIN stats \cup {uid} |-> IF u = uid THEN new ELSE stats[u]]

RECURSIVE AddStats(_, _, _, _)
AddStats(stats, uid, issues, eng) ==
    IF issues = <<>> THEN stats
    ELSE AddStats(AddStat(stats, uid, Head(issues), eng), uid, Tail(issues), eng)

\* compute_user_issue_stats: one pass over the rows of posts.
RECURSIVE compute_user_issue_stats(_, _)
compute_user_issue_stats(posts, post_issue_map) ==
    IF posts = <<>> THEN <<>>
    ELSE LET row == posts[Len(posts)]
             before == compute_user_issue_stats(SubSeq(posts, 1, Len(posts) - 1),
                                                post_issue_map)
             issues == IF row.post_id \in DOMAIN post_issue_map
                       THEN post_issue_map[row.post_id] ELSE <<>>
         IN AddStats(before, row.user_id, issues, row.likes + row.shares + row.comments)

----------------------------------------------------------------------------
(* plugins/linear_scorer.py                                                *)

\* The marker of a float division by zero (Python raises ZeroDivisionError).
DivError == <<0, 0>>

StatsGetOfAnyAuthor(stats, uid, issue) ==
    IF uid \in DOMAIN stats /\ issue \in DOMAIN stats[uid] THEN stats[uid][issue]
    ELSE IF \E u \in DOMAIN stats : issue \in DOMAIN stats[u]
    THEN stats[CHOOSE u \in DOMAIN stats : issue \in DOMAIN stats[u]][issue]
    ELSE NoStat

\* user_issue_stats.get(uid, {}).get(issue, {"count":0.0, "eng_sum":0.0})
StatsGet(stats, uid, issue) ==
    IF uid \in DOMAIN stats /\ issue \in DOMAIN stats[uid]
    THEN stats[uid][issue] ELSE NoStat

Max2(a, b) == IF a >= b THEN a ELSE b

EngRateNoGuard(cnt, eng_sum, followers, min_samples) ==
    IF cnt = 0 THEN DivError ELSE Rat(eng_sum, cnt * Max2(1, followers))

\* linear_scorer.py:30-34
EngRate(cnt, eng_sum, followers, min_samples) ==
    IF cnt >= min_samples
    THEN IF cnt = 0 THEN DivError ELSE Rat(eng_sum, cnt * Max2(1, followers))
    ELSE Zero

\* sum(v.get("count",0.0) for v in user_issue_stats.get(uid, {}).values())
RECURSIVE SumCounts(_, _)
SumCounts(f, S) ==
    IF S = {} THEN 0
    ELSE LET i == CHOOSE a \in S : TRUE IN f[i].count + SumCounts(f, S \ {i})

TotalMentions(stats, uid) ==
    IF uid \in DOMAIN stats THEN SumCounts(stats[uid], DOMAIN stats[uid]) ELSE 0

\* linear_scorer.py:35-36
Salience(cnt, total, eps) ==
    IF total > 0 THEN RatDiv(FromInt(cnt), RatAdd(FromInt(total), eps)) ELSE Zero

\* followers_map[uid]: the followers of the last row carrying the id.
FollowersOf(users, uid) ==
    LET P == {i \in 1..Len(users) : users[i].user_id = uid}
    IN users[CHOOSE i \in P : \A j \in P : j <= i].followers

\* pagerank.get(uid, 0.0)
PagerankGet(pagerank, uid) == IF uid \in DOMAIN pagerank THEN pagerank[uid] ELSE Zero

\* int(communities.get(uid, -1)) if uid in communities else None
CommunityCell(communities, uid) ==
    IF uid \in DOMAIN communities THEN IntCell(communities[uid]) ELSE NoneCell

ScoredIssuesOfAccounts(stats) ==
    SortedStrs(UNION {DOMAIN stats[u] : u \in (DOMAIN stats) \ {0}})

\* sorted({iss for uid in user_issue_stats for iss in user_issue_stats[uid].keys()})
ScoredIssues(stats) == SortedStrs(UNION {DOMAIN stats[u] : u \in DOMAIN stats})

\* w[...] * norm, summed (linear_scorer.py:43); weights are in hundredths.
Composite(w, reach, eng, cen, sal) ==
    RatAdd(RatAdd(RatMul(Rat(w.reach, 100), reach), RatMul(Rat(w.engagement, 100), eng)),
           RatAdd(RatMul(Rat(w.centrality, 100), cen), RatMul(Rat(w.salience, 100), sal)))

\* LinearScorer.score.  The result carries the returned rows and, for the
\* claims about them, the local vectors the rows are computed from.
score(users, pagerank, communities, stats, cfg) ==
    LET n == Len(users)
        uid_list == [i \in 1..n |-> users[i].user_id]
        reach_vec == Vec([i \in 1..n |-> FromInt(FollowersOf(users, uid_list[i]))])
        centrality_vec == Vec([i \in 1..n |-> PagerankGet(pagerank, uid_list[i])])
        reach_norm == Vec(minmax_scale(reach_vec))
        centrality_norm == Vec(minmax_scale(centrality_vec))
        issues == ScoredIssues(stats)
        eng_rate == Vec([q \in 1..Len(issues) |-> Vec([i \in 1..n |->
            LET st == StatsGet(stats, uid_list[i], issues[q])
            IN EngRate(st.count, st.eng_sum, FollowersOf(users, uid_list[i]),
                       cfg.min_samples_for_engagement)])])
        salience == Vec([q \in 1..Len(issues) |-> Vec([i \in 1..n |->
            Salience(StatsGet(stats, uid_list[i], issues[q]).count,
                     TotalMentions(stats, uid_list[i]), cfg.epsilon)])])
        raised == \E q \in 1..Len(issues) : \E i \in 1..n : eng_rate[q][i] = DivError
        eng_norm == Vec([q \in 1..Len(issues) |-> Vec(minmax_scale(eng_rate[q]))])
        sal_norm == Vec([q \in 1..Len(issues) |-> Vec(minmax_scale(salience[q]))])
        row(q, i) == [user_id |-> uid_list[i],
                      issue |-> issues[q],
                      reach |-> reach_norm[i],
                      engagement |-> eng_norm[q][i],
                      centrality |-> centrality_norm[i],
                      salience |-> sal_norm[q][i],
                      score |-> Composite(cfg.weights, reach_norm[i], eng_norm[q][i],
                                          centrality_norm[i], sal_norm[q][i]),
                      community |-> CommunityCell(communities, uid_list[i])]
    IN IF raised
       THEN [error |-> "ZeroDivisionError", rows |-> <<>>, issues |-> issues,
             reach_vec |-> reach_vec, centrality_vec |-> centrality_vec,
             eng_rate |-> <<>>, salience |-> <<>>]
       ELSE [error |-> "none",
             rows |-> [p \in 1..(Len(issues) * n) |->
                          row(((p - 1) \div n) + 1, ((p - 1) % n) + 1)],
             issues |-> issues,
             reach_vec |-> reach_vec, centrality_vec |-> centrality_vec,
             eng_rate |-> eng_rate, salience |-> salience]

----------------------------------------------------------------------------
(* plugins/pagerank.py: the graph, and the results of the networkx calls   *)

RECURSIVE Dedup(_)
Dedup(t) ==
    IF t = <<>> THEN <<>>
    ELSE LET r == Dedup(SubSeq(t, 1, Len(t) - 1))
         IN IF t[Len(t)] \in Range(r) THEN r ELSE Append(r, t[Len(t)])

\* _build: one node per user row, then the end points of every edge row.
GraphNodes(users, edges) ==
    Dedup([i \in 1..Len(users) |-> users[i].user_id]
          \o [j \in 1..(2 * Len(edges)) |->
                IF j % 2 = 1 THEN edges[(j + 1) \div 2].src_user_id
                ELSE edges[j \div 2].dst_user_id])

Pos(t, x) == CHOOSE i \in 1..Len(t) : t[i] = x

Uniform(nodes) == [u \in Range(nodes) |-> Rat(1, Len(nodes))]

PagerankOutcomesNotDivided(nodes) ==
    IF Len(nodes) = 0 THEN {[raised |-> FALSE, pr |-> <<>>]}
    ELSE {[raised |-> TRUE, pr |-> [u \in Range(nodes) |-> Rat(1, 1)]],
          [raised |-> FALSE, pr |-> Uniform(nodes)]}

\* compute: {} on an empty graph; otherwise what nx.pagerank returns, or the
\* uniform 1/N of the except branch when it raises.  networkx is not part of
\* the repository: its result is one of two distributions over the nodes.
PagerankOutcomes(nodes) ==
    IF Len(nodes) = 0 THEN {[raised |-> FALSE, pr |-> <<>>]}
    ELSE {[raised |-> TRUE, pr |-> Uniform(nodes)],
          [raised |-> FALSE, pr |-> Uniform(nodes)],
          [raised |-> FALSE,
           pr |-> [u \in Range(nodes) |->
                     Rat(2 * Pos(nodes, u), Len(nodes) * (Len(nodes) + 1))]]}

\* communities: {} on an empty graph; otherwise the numbering of the sets
\* greedy_modularity_communities returns: one of two partitions of the nodes.
CommunityOutcomes(nodes) ==
    IF Len(nodes) = 0 THEN {<<>>}
    ELSE {[u \in Range(nodes) |-> Pos(nodes, u) - 1],
          [u \in Range(nodes) |-> (Pos(nodes, u) - 1) \div 2]}

----------------------------------------------------------------------------
(* pipeline.run_pipeline, step by step                                     *)

DefaultWeights == [reach |-> 35, engagement |-> 25, centrality |-> 25, salience |-> 15]

NoFile == [exists |-> FALSE, content |-> <<>>]
File(content) == [exists |-> TRUE, content |-> content]

NoError == [kind |-> "none", table |-> "", missing |-> {}]
ErrMissing(table, missing) == [kind |-> "ValueError", table |-> table, missing |-> missing]
Err(kind) == [kind |-> kind, table |-> "", missing |-> {}]

UsersFull == {"user_id", "handle", "followers"}
EdgesFull == {"src_user_id", "dst_user_id"}
PostsFull == {"post_id", "user_id", "text", "likes", "shares", "comments"}

Table(cols, rows) == [cols |-> cols, rows |-> rows]

UserRow(id, f) == [user_id |-> id, followers |-> f]
EdgeRow(a, b) == [src_user_id |-> a, dst_user_id |-> b]
PostRow(id, uid, text) ==
    [post_id |-> id, user_id |-> uid, text |-> text, likes |-> 1, shares |-> 1, comments |-> 0]
IssueEntry(name, kws) == [name |-> name, kws |-> kws]

Users3 == <<UserRow(1, 1), UserRow(2, 0), UserRow(3, 3)>>
UsersDup == <<UserRow(1, 1), UserRow(1, 3)>>
Edges2 == <<EdgeRow(1, 2), EdgeRow(2, 9)>>
Posts3 == <<PostRow(1, 1, <<"X">>), PostRow(2, 3, <<"x", " ", "y">>), PostRow(3, 0, <<"s">>)>>

UsersTables ==
    {Table(UsersFull, Users3), Table(UsersFull, <<>>), Table(UsersFull, UsersDup),
     Table({"user_id", "handle"}, Users3), Table({"user_id", "followers"}, Users3),
     Table({"followers"}, Users3)}
EdgesTables ==
    {Table(EdgesFull, Edges2), Table(EdgesFull, <<>>), Table({"src_user_id"}, Edges2)}
\* Posts3 and a fourth post whose text cell is empty.
Posts4 == Posts3 \o <<PostRow(4, 2, NaNCell)>>

PostsTables ==
    {Table(PostsFull, Posts3), Table(PostsFull, <<>>), Table(PostsFull, Posts4),
     Table({"post_id", "user_id", "text"}, Posts3), Table({"post_id", "user_id", "likes"}, Posts3)}

KwX == <<<<"X">>>>
KwY == <<<<"y">>>>
KwAn == <<<<"a", "n">>>>
Taxonomies ==
    {<<>>,
     <<IssueEntry(<<"x">>, KwX)>>,
     <<IssueEntry(<<"x">>, KwX), IssueEntry(<<"y">>, KwY)>>,
     <<IssueEntry(<<"x">>, KwX), IssueEntry(<<"y">>, KwAn)>>,
     <<IssueEntry(<<"e">>, KwX)>>,
     <<IssueEntry(<<"x">>, KwX), IssueEntry(<<"E">>, KwY)>>,
     <<IssueEntry(<<"e", "s">>, KwX)>>,
     <<IssueEntry(<<"s", "_", "e">>, KwX)>>,
     <<IssueEntry(<<"s", " ", "e">>, KwX)>>}

DenyLists == {<< <<"e">> >>, << <<"s", "s">>, <<"E">> >>}

RunConfigs ==
    [disallow_political_persuasion : BOOLEAN,
     deny_keywords : DenyLists,
     enforce_diversity : {TRUE},
     min_samples_for_engagement : {0, 1},
     epsilon : {Rat(1, 10)},
     weights : {DefaultWeights}]

NoLocals ==
    [users |-> Table({}, <<>>), edges |-> Table({}, <<>>), posts |-> Table({}, <<>>),
     taxonomy |-> <<>>, post_issue_map |-> <<>>, user_issue_stats |-> <<>>,
     pr |-> <<>>, pr_raised |-> FALSE, comms |-> <<>>, scores |-> <<>>,
     state |-> <<>>, error |-> NoError, steps |-> <<>>]

InitRun ==
    /\ inp \in [users : UsersTables, edges : EdgesTables, posts : PostsTables,
                taxonomy : Taxonomies, cfg : RunConfigs]
    /\ pc = "start"
    /\ loc = NoLocals
    /\ disk = [csv |-> NoFile, state |-> NoFile]
    /\ log = <<>>
    /\ mem = Unused /\ resp = Unused /\ memo = Unused
    /\ scores_df = Unused /\ sel_call = Unused /\ sel_out = Unused
    /\ sc_in = Unused /\ sc_out = Unused /\ ties = Unused
    /\ tag_in = Unused /\ tag_out = Unused

runFrame == <<inp, mem, resp, memo, selVars, scVars, ties, tagVars>>

Step(name) == [loc EXCEPT !.steps = Append(@, name)]

Fail(name, err) ==
    /\ pc' = "failed"
    /\ loc' = [Step(name) EXCEPT !.error = err]

\* pipeline.py:14-17  configure_logging, os.makedirs(out_dir), AppConfig(**cfg)
Start ==
    /\ pc = "start"
    /\ pc' = "load_users"
    /\ loc' = Step("makedirs")
    /\ UNCHANGED <<disk, log, runFrame>>

\* pipeline.py:19
LoadUsers ==
    /\ pc = "load_users"
    /\ IF Missing(RequiredUsers, inp.users.cols) # {}
       THEN Fail("load_users", ErrMissing("users", Missing(RequiredUsers, inp.users.cols)))
       ELSE /\ pc' = "load_edges"
            /\ loc' = [Step("load_users") EXCEPT !.users = load_users(inp.users)]
    /\ UNCHANGED <<disk, log, runFrame>>

\* pipeline.py:20
LoadEdges ==
    /\ pc = "load_edges"
    /\ IF Missing(RequiredEdges, inp.edges.cols) # {}
       THEN Fail("load_edges", ErrMissing("edges", Missing(RequiredEdges, inp.edges.cols)))
       ELSE /\ pc' = "load_posts"
            /\ loc' = [Step("load_edges") EXCEPT !.edges = inp.edges]
    /\ UNCHANGED <<disk, log, runFrame>>

\* pipeline.py:21
LoadPosts ==
    /\ pc = "load_posts"
    /\ IF Missing(RequiredPosts, inp.posts.cols) # {}
       THEN Fail("load_posts", ErrMissing("posts", Missing(RequiredPosts, inp.posts.cols)))
       ELSE /\ pc' = "load_taxonomy"
            /\ loc' = [Step("load_posts") EXCEPT !.posts = load_posts(inp.posts)]
    /\ UNCHANGED <<disk, log, runFrame>>

\* pipeline.py:22
LoadTaxonomy ==
    /\ pc = "load_taxonomy"
    /\ pc' = "compliance"
    /\ loc' = [Step("load_taxonomy") EXCEPT !.taxonomy = load_taxonomy(inp.taxonomy)]
    /\ UNCHANGED <<disk, log, runFrame>>


ComplianceEnabledAlways(cfg) == TRUE

\* pipeline.py:24
ComplianceEnabled(cfg) == cfg.disallow_political_persuasion

\* pipeline.py:24-29
Compliance ==
    /\ pc = "compliance"
    /\ IF /\ ComplianceEnabled(inp.cfg)
          /\ assert_non_political(TaxonomyKeys(loc.taxonomy), inp.cfg.deny_keywords) # 0
       THEN Fail("compliance", Err("RuntimeError: Compliance check failed"))
       ELSE /\ pc' = "tag"
            /\ loc' = Step("compliance")
    /\ UNCHANGED <<disk, log, runFrame>>

\* pipeline.py:40; row["text"] and row["post_id"] raise KeyError on a table that
\* lacks the column.
Tag ==
    /\ pc = "tag"
    /\ IF {"text", "post_id"} \subseteq loc.posts.cols
       THEN /\ pc' = "aggregate"
            /\ loc' = [Step("tag") EXCEPT
                         !.post_issue_map = tag_posts_by_issue(loc.posts.rows, loc.taxonomy)]
       ELSE Fail("tag", Err("KeyError"))
    /\ UNCHANGED <<disk, log, runFrame>>

\* pipeline.py:41
Aggregate ==
    /\ pc = "aggregate"
    /\ IF "user_id" \in loc.posts.cols
       THEN /\ pc' = "centrality"
            /\ loc' = [Step("aggregate") EXCEPT
                         !.user_issue_stats =
                             compute_user_issue_stats(loc.posts.rows, loc.post_issue_map)]
       ELSE Fail("aggregate", Err("KeyError"))
    /\ UNCHANGED <<disk, log, runFrame>>

GraphColumnsPresent ==
    /\ {"user_id", "handle"} \subseteq loc.users.cols
    /\ EdgesFull \subseteq loc.edges.cols

\* pipeline.py:43
Centrality ==
    /\ pc = "centrality"
    /\ IF GraphColumnsPresent
       THEN \E o \in PagerankOutcomes(GraphNodes(loc.users.rows, loc.edges.rows)) :
                /\ pc' = "communities"
                /\ loc' = [Step("centrality") EXCEPT !.pr = o.pr, !.pr_raised = o.raised]
       ELSE Fail("centrality", Err("KeyError"))
    /\ UNCHANGED <<disk, log, runFrame>>

\* pipeline.py:44
Communities ==
    /\ pc = "communities"
    /\ \E c \in CommunityOutcomes(GraphNodes(loc.users.rows, loc.edges.rows)) :
            /\ pc' = "score"
            /\ loc' = [Step("communities") EXCEPT !.comms = c]
    /\ UNCHANGED <<disk, log, runFrame>>

\* pipeline.py:46
Score ==
    /\ pc = "score"
    /\ LET r == score(loc.users.rows, loc.pr, loc.comms, loc.user_issue_stats, inp.cfg)
       IN IF r.error = "none"
          THEN /\ pc' = "write_csv"
               /\ loc' = [Step("score") EXCEPT !.scores = r.rows]
          ELSE Fail("score", Err(r.error))
    /\ UNCHANGED <<disk, log, runFrame>>

\* json.dump(state, f): dictionary keys that are ints are written as strings;
\* the other dictionaries of the state already have string keys, and floats
\* are written with repr, which json.load reads back exactly.
json_dump(state) ==
    [state EXCEPT !.user_meta =
        [i \in 1..Len(state.user_meta) |->
            [key |-> <<"str", state.user_meta[i].key[2]>>,
             followers |-> state.user_meta[i].followers]]]

HasDuplicateIds(users) ==
    \E i, j \in 1..Len(users) : i # j /\ users[i].user_id = users[j].user_id

\* users.set_index("user_id").to_dict(orient="index"): one entry per account,
\* in row order, keyed by the user_id as read from the CSV (an int).
to_dict_index(users) ==
    [i \in 1..Len(users) |-> [key |-> <<"int", users[i].user_id>>,
                              followers |-> users[i].followers]]

StateDictDefaultScoring(taxonomy, pr, comms, users, post_issue_map, user_issue_stats, cfg) ==
    [issues |-> TaxonomyKeys(taxonomy),
     pagerank |-> pr,
     communities |-> comms,
     user_meta |-> to_dict_index(users),
     post_issue_map |-> post_issue_map,
     user_issue_stats |-> user_issue_stats,
     config |-> [cfg EXCEPT !.min_samples_for_engagement = 3]]

\* The state dictionary of pipeline.py:50-58.
StateDict(taxonomy, pr, comms, users, post_issue_map, user_issue_stats, cfg) ==
    [issues |-> TaxonomyKeys(taxonomy),
     pagerank |-> pr,
     communities |-> comms,
     user_meta |-> to_dict_index(users),
     post_issue_map |-> post_issue_map,
     user_issue_stats |-> user_issue_stats,
     config |-> cfg]

WriteCsvAndState ==
    /\ pc = "write_csv"
    /\ pc' = "build_state"
    /\ loc' = Step("write_csv")
    /\ disk' = [csv |-> File(loc.scores),
                state |-> File(json_dump(
                    StateDict(loc.taxonomy, loc.pr, loc.comms, loc.users.rows,
                              loc.post_issue_map, loc.user_issue_stats, inp.cfg)))]
    /\ UNCHANGED <<log, runFrame>>

WriteCsvNotFlushed ==
    /\ pc = "write_csv"
    /\ pc' = "build_state"
    /\ loc' = Step("write_csv")
    /\ UNCHANGED <<disk, log, runFrame>>

\* pipeline.py:47-48
WriteCsv ==
    /\ pc = "write_csv"
    /\ pc' = "build_state"
    /\ loc' = Step("write_csv")
    /\ disk' = [disk EXCEPT !.csv = File(loc.scores)]
    /\ UNCHANGED <<log, runFrame>>

\* pipeline.py:50-58; to_dict(orient="index") raises ValueError when the index
\* (user_id) is not unique.
BuildState ==
    /\ pc = "build_state"
    /\ IF HasDuplicateIds(loc.users.rows)
       THEN Fail("build_state", Err("ValueError: index must be unique"))
       ELSE /\ pc' = "write_state"
            /\ loc' = [Step("build_state") EXCEPT
                         !.state = StateDict(loc.taxonomy, loc.pr, loc.comms, loc.users.rows,
                                             loc.post_issue_map, loc.user_issue_stats, inp.cfg)]
    /\ UNCHANGED <<disk, log, runFrame>>

\* pipeline.py:59-64
WriteState ==
    /\ pc = "write_state"
    /\ pc' = "done"
    /\ loc' = Step("write_state")
    /\ disk' = [disk EXCEPT !.state = File(json_dump(loc.state))]
    /\ log' = Append(log, "pipeline_complete")
    /\ UNCHANGED runFrame

NextRun ==
    \/ Start \/ LoadUsers \/ LoadEdges \/ LoadPosts \/ LoadTaxonomy \/ Compliance
    \/ Tag \/ Aggregate \/ Centrality \/ Communities \/ Score
    \/ WriteCsv \/ BuildState \/ WriteState

SpecRun == InitRun /\ [][NextRun]_vars

LaterSteps ==
    {"tag", "aggregate", "centrality", "communities", "score",
     "write_csv", "build_state", "write_state"}

NothingWritten == ~disk.csv.exists /\ ~disk.state.exists

NoLaterStep == \A i \in 1..Len(loc.steps) : loc.steps[i] \notin LaterSteps

NameContainsDenyKeyword ==
    \E q \in 1..Len(inp.taxonomy), j \in 1..Len(inp.cfg.deny_keywords) :
        Contains(inp.cfg.deny_keywords[j], inp.taxonomy[q].name)

\* C5: when a taxonomy issue name contains a deny-listed keyword, the run
\* aborts: it never completes, none of tagging, aggregation, centrality,
\* community detection, scoring or the two writes runs, and neither
\* issue_scores.csv nor state.json is written.
C5_DenyKeywordAborts ==
    NameContainsDenyKeyword =>
        /\ pc \notin LaterSteps \cup {"done"}
        /\ NoLaterStep
        /\ NothingWritten

\* What the code does guarantee: with the check enabled, a deny-listed keyword
\* that stands as a whole word (case-insensitively) in the space-joined issue
\* names aborts the run before any later step or write.
ComplianceAbortsOnWholeWord ==
    (/\ inp.cfg.disallow_political_persuasion
     /\ \E j \in 1..Len(inp.cfg.deny_keywords) :
           SearchWord(LowerStr(inp.cfg.deny_keywords[j]),
                      LowerStr(JoinSpace(TaxonomyKeys(inp.taxonomy)))))
    => /\ pc \notin LaterSteps \cup {"done"}
       /\ NoLaterStep
       /\ NothingWritten

ComplianceAbortReached ==
    pc = "failed" /\ loc.error.kind = "RuntimeError: Compliance check failed"

LackingUsers == {"user_id", "handle"} \ inp.users.cols
LackingEdges == {"src_user_id", "dst_user_id"} \ inp.edges.cols
LackingPosts == {"post_id", "user_id", "text"} \ inp.posts.cols

\* C6: when the users, edges or posts table lacks a required column, the run
\* fails with a ValueError naming the table and exactly its missing columns
\* (the first lacking table in load order), no tagging, aggregation,
\* centrality, community or scoring step has run, and no output file exists.
C6_MissingColumnFailsFast ==
    (LackingUsers \cup LackingEdges \cup LackingPosts # {}) =>
        /\ pc \in {"start", "load_users", "load_edges", "load_posts", "failed"}
        /\ NoLaterStep
        /\ NothingWritten
        /\ pc = "failed" =>
              /\ loc.error.kind = "ValueError"
              /\ loc.error.missing # {}
              /\ loc.error =
                    [kind |-> "ValueError",
                     table |-> IF LackingUsers # {} THEN "users"
                               ELSE IF LackingEdges # {} THEN "edges" ELSE "posts",
                     missing |-> IF LackingUsers # {} THEN LackingUsers
                                 ELSE IF LackingEdges # {} THEN LackingEdges
                                 ELSE LackingPosts]

C6_Witness ==
    /\ pc = "failed"
    /\ LackingUsers = {} /\ LackingEdges = {}
    /\ loc.error.table = "posts"
    /\ loc.error.missing = {"text"}
    /\ loc.steps = <<"makedirs", "load_users", "load_edges", "load_posts">>

RunCompleted == pc = "done" /\ disk.csv.exists /\ disk.state.exists


----------------------------------------------------------------------------
(* SpecScore: LinearScorer.score on bounded inputs                         *)

\* Accounts are numbered 1..n; author 0 is an author of tagged content that is
\* not in the account table.
MaxUsers == 3

IssueX == <<"x">>
IssueY == <<"y">>

FollowerCounts == {0, 1, 3}
XStats == {NoStat, [count |-> 1, eng_sum |-> 6], [count |-> 3, eng_sum |-> 6]}
YStat == [count |-> 3, eng_sum |-> 6]
PagerankValues == {DivError, Rat(1, 4), Rat(3, 4)}    \* DivError stands for "no entry"
CommunityIds == {-1, 0, 1}                            \* -1 stands for "no entry"

ScorerConfigs ==
    [min_samples_for_engagement : {0, 3}, epsilon : {Rat(1, 10)}, weights : {DefaultWeights}]

\* user_issue_stats as compute_user_issue_stats leaves it: no stored zeros.
MkStats(n, xs, ywho, foreign) ==
    LET D == {i \in 1..n : xs[i] # NoStat \/ i \in ywho} \cup (IF foreign THEN {0} ELSE {})
    IN [u \in D |->
          IF u = 0 THEN [iss \in {IssueY} |-> YStat]
          ELSE [iss \in ((IF xs[u] # NoStat THEN {IssueX} ELSE {})
                         \cup (IF u \in ywho THEN {IssueY} ELSE {}))
                  |-> IF iss = IssueX THEN xs[u] ELSE YStat]]

MkPartial(n, f, none) == [u \in {i \in 1..n : f[i] # none} |-> f[u]]

\* An input that varies followers and activity over a fixed graph result.
ActivityInput(n, fs, xs, ywho, foreign, cfg) ==
    [users |-> [i \in 1..n |-> [user_id |-> i, followers |-> fs[i]]],
     pagerank |-> [u \in 1..n |-> Rat(1, 4)],
     communities |-> [u \in 1..n |-> 0],
     user_issue_stats |-> MkStats(n, xs, ywho, foreign),
     cfg |-> cfg]

\* An input that varies the centrality and community maps over fixed activity.
GraphInput(n, pr, cm, cfg) ==
    [users |-> [i \in 1..n |-> [user_id |-> i, followers |-> 1]],
     pagerank |-> MkPartial(n, pr, DivError),
     communities |-> MkPartial(n, cm, -1),
     user_issue_stats |-> MkStats(n, [i \in 1..n |-> YStat], {}, FALSE),
     cfg |-> cfg]

NotRun == [error |-> "not run"]

InitScore ==
    /\ \E n \in 0..MaxUsers, cfg \in ScorerConfigs :
        \/ \E fs \in [1..n -> FollowerCounts], xs \in [1..n -> XStats],
              ywho \in {{}, {1}}, foreign \in BOOLEAN :
                sc_in = ActivityInput(n, fs, xs, ywho, foreign, cfg)
        \/ \E pr \in [1..n -> PagerankValues], cm \in [1..n -> CommunityIds] :
                sc_in = GraphInput(n, pr, cm, cfg)
    /\ sc_out = NotRun
    /\ scores_df = Unused /\ sel_call = Unused /\ sel_out = Unused
    /\ inp = Unused /\ pc = Unused /\ loc = Unused /\ disk = Unused
    /\ mem = Unused /\ resp = Unused /\ memo = Unused /\ log = Unused
    /\ ties = Unused
    /\ tag_in = Unused /\ tag_out = Unused

\* One call of the pure function per behaviour.
LinearScorer_score ==
    /\ sc_out = NotRun
    /\ sc_out' = score(sc_in.users, sc_in.pagerank, sc_in.communities,
                       sc_in.user_issue_stats, sc_in.cfg)
    /\ UNCHANGED <<sc_in, selVars, pipeVars, ties, tagVars>>

NextScore == LinearScorer_score

SpecScore == InitScore /\ [][NextScore]_vars

Scored == sc_out.error = "none"

NUsers == Len(sc_in.users)

\* The row of issue number q and account number i in the returned table.
RowOf(q, i) == sc_out.rows[(q - 1) * NUsers + i]

AllEqual(x) == \A i, j \in 1..Len(x) : x[i] = x[j]

InUnit(c) == RatLE(Zero, c) /\ RatLE(c, One)

\* C8: a constant vector normalizes to zeros of the same length, so an axis on
\* which all accounts are equal contributes 0 to every emitted record.
C8_ConstantAxisIsZero ==
    Scored =>
        /\ Len(sc_out.rows) = Len(sc_out.issues) * NUsers
        /\ \A q \in 1..Len(sc_out.issues) : \A i \in 1..NUsers :
            /\ AllEqual(sc_out.reach_vec) => RowOf(q, i).reach = Zero
            /\ AllEqual(sc_out.centrality_vec) => RowOf(q, i).centrality = Zero
            /\ AllEqual(sc_out.eng_rate[q]) => RowOf(q, i).engagement = Zero
            /\ AllEqual(sc_out.salience[q]) => RowOf(q, i).salience = Zero

\* C8 witness: several accounts with one common non-zero follower count are
\* scored; their reach is 0 in every record while engagement differs.
C8_Witness ==
    /\ Scored /\ NUsers >= 2 /\ Len(sc_out.rows) > 0
    /\ AllEqual(sc_out.reach_vec) /\ sc_out.reach_vec[1] # Zero
    /\ ~AllEqual(sc_out.eng_rate[1])
    /\ \A i \in 1..NUsers : RowOf(1, i).reach = Zero

ExtremesNormalized(x, comp(_)) ==
    ~AllEqual(x) =>
        \A i \in 1..Len(x) :
            /\ x[i] = RatMin(x) => comp(i) = Zero
            /\ x[i] = RatMax(x) => comp(i) = One

\* C9: every normalized component of every emitted record is in [0,1]; for a
\* non-constant vector its minimum normalizes to 0 and its maximum to 1.
C9_ComponentsInUnitInterval ==
    Scored =>
        \A q \in 1..Len(sc_out.issues) :
            /\ \A i \in 1..NUsers :
                /\ InUnit(RowOf(q, i).reach) /\ InUnit(RowOf(q, i).engagement)
                /\ InUnit(RowOf(q, i).centrality) /\ InUnit(RowOf(q, i).salience)
            /\ ExtremesNormalized(sc_out.reach_vec, LAMBDA i : RowOf(q, i).reach)
            /\ ExtremesNormalized(sc_out.centrality_vec, LAMBDA i : RowOf(q, i).centrality)
            /\ ExtremesNormalized(sc_out.eng_rate[q], LAMBDA i : RowOf(q, i).engagement)
            /\ ExtremesNormalized(sc_out.salience[q], LAMBDA i : RowOf(q, i).salience)

StrictlyInside(c) == RatLT(Zero, c) /\ RatLT(c, One)

\* C9 witness: a table with a record whose reach, one whose engagement and one
\* whose salience is strictly between 0 and 1.
C9_Witness ==
    /\ Scored
    /\ \E q \in 1..Len(sc_out.issues) : \E i, j, l \in 1..NUsers :
        /\ StrictlyInside(RowOf(q, i).reach)
        /\ StrictlyInside(RowOf(q, j).engagement)
        /\ StrictlyInside(RowOf(q, l).salience)

\* The stored counters of a pair, 0 and 0 when the pair has no entry.
CountOf(i, q) == StatsGet(sc_in.user_issue_stats, sc_in.users[i].user_id, sc_out.issues[q]).count
EngSumOf(i, q) == StatsGet(sc_in.user_issue_stats, sc_in.users[i].user_id, sc_out.issues[q]).eng_sum

\* C10: the pre-normalization engagement rate of a pair is exactly 0 when its
\* count is below min_samples_for_engagement, and eng_sum / count / max(1,
\* followers) otherwise (rate * count * max(1, followers) = eng_sum).
C10_ColdStartGuard ==
    Scored =>
        \A q \in 1..Len(sc_out.issues) : \A i \in 1..NUsers :
            LET rate == sc_out.eng_rate[q][i]
                f == IF sc_in.users[i].followers > 1 THEN sc_in.users[i].followers ELSE 1
            IN /\ CountOf(i, q) < sc_in.cfg.min_samples_for_engagement => rate = Zero
               /\ CountOf(i, q) >= sc_in.cfg.min_samples_for_engagement =>
                    /\ CountOf(i, q) > 0
                    /\ rate[1] * CountOf(i, q) * f = EngSumOf(i, q) * rate[2]

\* C10 witness: in one scored table a pair below the threshold with eng_sum > 0,
\* a pair with no entry, and a pair at the threshold with a non-zero rate.
C10_Witness ==
    /\ Scored
    /\ \E q \in 1..Len(sc_out.issues) : \E i, j, l \in 1..NUsers :
        /\ CountOf(i, q) > 0 /\ CountOf(i, q) < sc_in.cfg.min_samples_for_engagement
        /\ EngSumOf(i, q) > 0 /\ sc_out.eng_rate[q][i] = Zero
        /\ CountOf(j, q) = 0 /\ sc_out.eng_rate[q][j] = Zero
        /\ CountOf(l, q) >= sc_in.cfg.min_samples_for_engagement
        /\ sc_in.users[l].followers = 3
        /\ sc_out.eng_rate[q][l] = Rat(2, 3)

\* The scorer raises exactly when a pair with count 0 passes the threshold.
ScoreRaisesOnlyOnZeroCount ==
    (sc_out.error = "ZeroDivisionError") =>
        /\ sc_in.cfg.min_samples_for_engagement <= 0
        /\ \E q \in 1..Len(sc_out.issues) : \E i \in 1..NUsers : CountOf(i, q) = 0

----------------------------------------------------------------------------
(* Selector: plugins/selector.py, audience/build.py, utils.py              *)

\* Bounds of the score tables and of k.
MaxRows == 3
MaxK == 4

TableIssues == {<<"x">>, <<"y">>}
AskIssues == {<<"x">>, <<"z">>}
TableScores == {FromInt(1), FromInt(2)}
TableCommunities == {IntCell(0), IntCell(1), NoneCell}

ScoreRows == [issue : TableIssues, score : TableScores, community : TableCommunities]

\* pandas builds the community column from the records: a column holding ints
\* and None becomes float64 with NaN in place of None; a column holding only
\* None stays an object column of None.
ColumnHasInt(df) == \E i \in 1..Len(df) : df[i].community[1] = "int"

\* The value r.get("community", -1) of row i after df.to_dict("records"): the
\* key "community" is always present, so the default -1 is never used.  Every
\* NaN cell is boxed into a fresh float object, and NaN is unequal to itself,
\* so as a dictionary key each NaN row is a key of its own.
group_fn(df, i) ==
    IF df[i].community[1] = "int" THEN df[i].community
    ELSE IF ColumnHasInt(df) THEN <<"nan", i>>
    ELSE NoneCell

\* sort_values("score", ascending=False) passes no kind, so pandas sorts with
\* numpy's quicksort, which numpy and pandas document as not stable: the order
\* it leaves equal scores in depends on the numpy build (its vectorised sort
\* kernels) and on the number of rows.  The order is fixed for one build, so it
\* is drawn once per behaviour: equal scores stay in input order, or leave it.
TieOrders == {"input_order", "reverse_order"}

Before(a, b) == IF ties = "input_order" THEN a <= b ELSE b <= a

\* scores_df[scores_df["issue"] == issue].sort_values("score", ascending=False):
\* the rows of the issue by descending score.
RECURSIVE SortDesc(_, _)
SortDesc(df, S) ==
    IF S = {} THEN <<>>
    ELSE LET i == CHOOSE a \in S : \A b \in S :
                     \/ RatLT(df[b].score, df[a].score)
                     \/ (df[b].score = df[a].score /\ Before(a, b))
         IN <<i>> \o SortDesc(df, S \ {i})

FilterIssue(df, issue) == {i \in 1..Len(df) : df[i].issue = issue}

SortedRows(df, issue) == SortDesc(df, FilterIssue(df, issue))

\* groups[group_fn(it)].append(it): keys in first-seen order.
RECURSIVE GroupKeys(_, _)
GroupKeys(df, rows) ==
    IF rows = <<>> THEN <<>>
    ELSE LET rest == GroupKeys(df, SubSeq(rows, 1, Len(rows) - 1))
             g == group_fn(df, rows[Len(rows)])
         IN IF g \in Range(rest) THEN rest ELSE Append(rest, g)

GroupRowsLowestFirst(df, rows, g) ==
    LET own == SelectSeq(rows, LAMBDA i : group_fn(df, i) = g)
    IN [p \in 1..Len(own) |-> own[Len(own) + 1 - p]]

GroupRows(df, rows, g) == SelectSeq(rows, LAMBDA i : group_fn(df, i) = g)

\* order = sorted(groups.keys(), key=lambda g: -len(groups[g])): a stable sort.
RECURSIVE OrderBySize(_, _, _)
OrderBySize(keys, size, P) ==
    IF P = {} THEN <<>>
    ELSE LET p == CHOOSE a \in P : \A b \in P :
                     \/ size[keys[b]] < size[keys[a]]
                     \/ (size[keys[b]] = size[keys[a]] /\ a <= b)
         IN <<keys[p]>> \o OrderBySize(keys, size, P \ {p})

BreakNever(out, k) == FALSE

\* utils.py:38-39  if len(out) >= k: break
BreakAfterAppend(out, k) == Len(out) >= k

\* One pass of "for g in order", from position p of order.
RECURSIVE Sweep(_, _, _, _, _)
Sweep(order, p, groups, out, k) ==
    IF p > Len(order) THEN [groups |-> groups, out |-> out]
    ELSE LET g == order[p] IN
         IF groups[g] # <<>>
         THEN LET out2 == Append(out, Head(groups[g]))
                  groups2 == [groups EXCEPT ![g] = Tail(@)]
              IN IF BreakAfterAppend(out2, k)
                 THEN [groups |-> groups2, out |-> out2]
                 ELSE Sweep(order, p + 1, groups2, out2, k)
         ELSE Sweep(order, p + 1, groups, out, k)

\* while len(out) < k and any(groups[g] for g in order)
RECURSIVE RoundRobinLoop(_, _, _, _)
RoundRobinLoop(order, groups, out, k) ==
    IF Len(out) < k /\ \E p \in 1..Len(order) : groups[order[p]] # <<>>
    THEN LET r == Sweep(order, 1, groups, out, k)
         IN RoundRobinLoop(order, r.groups, r.out, k)
    ELSE out

round_robin_by_group(df, rows, k) ==
    LET keys == GroupKeys(df, rows)
        groups == [g \in Range(keys) |-> GroupRows(df, rows, g)]
        size == [g \in Range(keys) |-> Len(groups[g])]
        order == OrderBySize(keys, size, 1..Len(keys))
    IN RoundRobinLoop(order, groups, <<>>, k)

HeadWhole(rows, k) == rows

\* df.head(k) for k >= 0.
Head_k(rows, k) == Prefix(rows, k)

\* RoundRobinSelector.select and select_seeds: the same body.  The function is
\* pure and keeps no state between calls, so each behaviour makes one call.
select(df, issue, k, diverse) ==
    LET rows == SortedRows(df, issue)
    IN IF ~diverse THEN Head_k(rows, k)
       ELSE round_robin_by_group(df, rows, k)

NoCall == [fn |-> "none", issue |-> <<"x">>, k |-> 0, diverse |-> FALSE]

InitSelect ==
    /\ scores_df \in SeqsUpTo(ScoreRows, MaxRows)
    /\ sel_call = NoCall
    /\ sel_out = <<>>
    /\ sc_in = Unused /\ sc_out = Unused
    /\ inp = Unused /\ pc = Unused /\ loc = Unused /\ disk = Unused
    /\ mem = Unused /\ resp = Unused /\ memo = Unused /\ log = Unused
    /\ ties \in TieOrders
    /\ tag_in = Unused /\ tag_out = Unused

RoundRobinSelector_select ==
    \E issue \in AskIssues, k \in 0..MaxK, diverse \in BOOLEAN :
        /\ sel_call = NoCall
        /\ sel_call' = [fn |-> "RoundRobinSelector.select", issue |-> issue,
                        k |-> k, diverse |-> diverse]
        /\ sel_out' = select(scores_df, issue, k, diverse)
        /\ UNCHANGED <<scores_df, scVars, pipeVars, ties, tagVars>>

select_seeds ==
    \E issue \in AskIssues, k \in 0..MaxK, diverse \in BOOLEAN :
        /\ sel_call = NoCall
        /\ sel_call' = [fn |-> "select_seeds", issue |-> issue,
                        k |-> k, diverse |-> diverse]
        /\ sel_out' = select(scores_df, issue, k, diverse)
        /\ UNCHANGED <<scores_df, scVars, pipeVars, ties, tagVars>>

NextSelect == RoundRobinSelector_select \/ select_seeds

SpecSelect == InitSelect /\ [][NextSelect]_vars

Called == sel_call.fn # "none"

\* C1: for every score table, issue, mode and k >= 0 the selector returns at
\* most k records.
C1_AtMostK == Called => Len(sel_out) <= sel_call.k

\* C1 witness: a diverse call with k below the number of rows of the issue,
\* answered with exactly k rows.
C1_Witness ==
    /\ Called /\ sel_call.diverse
    /\ sel_call.k >= 2
    /\ Cardinality(FilterIssue(scores_df, sel_call.issue)) > sel_call.k
    /\ Len(sel_out) = sel_call.k

\* The community group of a row as the specification defines it: its community
\* id, all rows without a community forming the one reserved sentinel group.
CommunityGroup(df, i) == df[i].community

CountIn(df, s, g) == Cardinality({p \in 1..Len(s) : CommunityGroup(df, s[p]) = g})

Supply(df, issue, g) ==
    Cardinality({i \in FilterIssue(df, issue) : CommunityGroup(df, i) = g})

FairPrefixes(df, issue, out) ==
    \A n \in 0..Len(out) :
        \A a, b \in {CommunityGroup(df, i) : i \in FilterIssue(df, issue)} :
            LET pre == Prefix(out, n)
                ca == CountIn(df, pre, a)
                cb == CountIn(df, pre, b)
            IN (ca >= cb + 2 \/ (ca >= 2 /\ cb = 0)) => cb = Supply(df, issue, b)

\* C2: in diverse mode, in every prefix of the result, a community that is two
\* or more records ahead of another one (or has a second record while the other
\* has none) is ahead only of communities whose rows are all in the prefix.
C2_DiverseFair ==
    (Called /\ sel_call.diverse) => FairPrefixes(scores_df, sel_call.issue, sel_out)

\* C2 on tables where no row lacks a community: the round-robin is fair.
C2_FairWhenAllCommunitiesKnown ==
    (/\ Called /\ sel_call.diverse
     /\ \A i \in 1..Len(scores_df) : scores_df[i].community # NoneCell)
    => FairPrefixes(scores_df, sel_call.issue, sel_out)

----------------------------------------------------------------------------
(* Re-ranking: pipeline.load_state, pipeline.rank_issue, the HTTP handler   *)
(* of service.py and the rank-issue command of cli.py, next to a run        *)

MaxTopK == 2

TaxonomyXY == <<IssueEntry(<<"x">>, KwX), IssueEntry(<<"y">>, KwY)>>

\* Posts that mention issue x only: issue y is in the state's list without
\* any statistics.
PostsX == <<PostRow(1, 1, <<"X">>), PostRow(2, 3, <<"x">>), PostRow(3, 0, <<"s">>)>>

RankIssues == {<<"x">>, <<"z">>}

SvcConfigs ==
    [disallow_political_persuasion : {TRUE},
     deny_keywords : {<< <<"e">> >>},
     enforce_diversity : BOOLEAN,
     min_samples_for_engagement : {1},
     epsilon : {Rat(1, 10)},
     weights : {DefaultWeights}]

NotLoaded == [loaded |-> FALSE, state |-> <<>>]
NoResp ==
    [entry |-> "none", issue |-> <<>>, k |-> 0, diverse |-> FALSE,
     state_found |-> FALSE, status |-> "", detail |-> "", seeds |-> <<>>]
NoMemo ==
    [set |-> FALSE, issue |-> <<>>, k |-> 0, diverse |-> FALSE,
     status |-> "", detail |-> "", seeds |-> <<>>, again |-> FALSE]

\* Account and edge rows: three accounts, no account, no account and no edge.
SvcGraphs == {<<Users3, Edges2>>, <<<<>>, Edges2>>, <<<<>>, <<>>>>}

Init ==
    /\ \E g \in SvcGraphs, cfg \in SvcConfigs :
          inp = [users |-> Table(UsersFull, g[1]), edges |-> Table(EdgesFull, g[2]),
                 posts |-> Table(PostsFull, PostsX), taxonomy |-> TaxonomyXY, cfg |-> cfg]
    /\ pc = "start"
    /\ loc = NoLocals
    /\ disk = [csv |-> NoFile, state |-> NoFile]
    /\ log = <<>>
    /\ mem = NotLoaded /\ resp = NoResp /\ memo = NoMemo
    /\ scores_df = Unused /\ sel_call = Unused /\ sel_out = Unused
    /\ sc_in = Unused /\ sc_out = Unused
    /\ ties \in TieOrders
    /\ tag_in = Unused /\ tag_out = Unused

\* pipeline.py:66-68  json.load of the state document.
load_state(file) == file.content

EffectiveDiverseOfCaller(cfg, diverse) == diverse

\* pipeline.py:87  diverse=diverse if cfg.selection.enforce_diversity else False
EffectiveDiverse(cfg, diverse) == IF cfg.enforce_diversity THEN diverse ELSE FALSE

Outcome(status, detail, seeds) == [status |-> status, detail |-> detail, seeds |-> seeds]

\* The one element of a singleton set: {e(v) : v \in {expr}} evaluates expr once.
The(S) == CHOOSE o \in S : TRUE

Rows(df, picked) == [p \in 1..Len(picked) |-> df[picked[p]]]

\* pipeline.py:85-88 on the table the scorer returned: scores_df["issue"]
\* raises KeyError on pd.DataFrame([]), which has no columns.
Seeds(r, cfg, issue, top_k, diverse) ==
    IF r.error # "none" THEN Outcome("raised", r.error, <<>>)
    ELSE IF r.rows = <<>> THEN Outcome("raised", "KeyError", <<>>)
    ELSE The({Outcome("ok", "", Rows(r.rows, picked)) :
                picked \in {select(r.rows, issue, top_k, EffectiveDiverse(cfg, diverse))}})

\* pipeline.py:75  pd.DataFrame([{"user_id": k, **v} for k, v in user_meta.items()]);
\* the scorer takes str(u) of each user_id (linear_scorer.py:13).
UsersOfState(state) ==
    [i \in 1..Len(state.user_meta) |->
        [user_id |-> state.user_meta[i].key[2], followers |-> state.user_meta[i].followers]]

\* pipeline.py:76-83  the score table rank_issue computes from the state.
Rescore(state) ==
    score(UsersOfState(state), state.pagerank, state.communities,
          state.user_issue_stats, state.config)

\* pipeline.rank_issue: the value it returns or the exception it raises.
\* users = pd.DataFrame([...]) has no columns when user_meta is empty, so
\* users["user_id"] in the scorer raises KeyError.
RankIssue(state, issue, top_k, diverse) ==
    IF state.user_meta = <<>> THEN Outcome("raised", "KeyError", <<>>)
    ELSE The({Seeds(r, state.config, issue, top_k, diverse) : r \in {Rescore(state)}})

StateAfterRankCaching(state, issue) ==
    IF issue \in Range(state.issues) THEN state
    ELSE [state EXCEPT !.issues = Append(@, issue)]

StateAfterRankPop(state, issue) ==
    [state EXCEPT !.user_issue_stats =
        [u \in DOMAIN @ |-> [q \in (DOMAIN @[u]) \ {issue} |-> @[u][q]]]]

\* The state dictionary after rank_issue returns: pipeline.py:75-79 and the
\* scorer (linear_scorer.py:13-27) only read it (state[...], state.get, .get).
StateAfterRank(state, issue) == state

Respond(entry, issue, k, diverse, found, o) ==
    [entry |-> entry, issue |-> issue, k |-> k, diverse |-> diverse,
     state_found |-> found, status |-> o.status, detail |-> o.detail, seeds |-> o.seeds]

rankFrame == <<inp, pc, loc, log, selVars, scVars, ties, tagVars>>

\* A caller of the library loads the state document (pipeline.py:66-68).
pipeline_load_state ==
    /\ disk.state.exists
    /\ mem' = [loaded |-> TRUE, state |-> load_state(disk.state)]
    /\ UNCHANGED <<disk, resp, memo, rankFrame>>

SameArgs(m, issue, k, diverse) == m.set /\ m.issue = issue /\ m.k = k /\ m.diverse = diverse

\* pipeline.rank_issue on the loaded state (pipeline.py:70-88).  memo keeps the
\* arguments and the outcome of one earlier call, for comparison.
pipeline_rank_issue ==
    \E issue \in RankIssues, k \in 1..MaxTopK, diverse \in BOOLEAN :
        /\ mem.loaded
        /\ \E o \in {RankIssue(mem.state, issue, k, diverse)} :
              /\ resp' = Respond("pipeline.rank_issue", issue, k, diverse, TRUE, o)
              /\ \/ /\ ~memo.set
                    /\ memo' = [set |-> TRUE, issue |-> issue, k |-> k, diverse |-> diverse,
                                status |-> o.status, detail |-> o.detail, seeds |-> o.seeds,
                                again |-> FALSE]
                 \/ /\ memo' = [memo EXCEPT !.again = @ \/ SameArgs(memo, issue, k, diverse)]
        /\ mem' = [mem EXCEPT !.state = StateAfterRank(@, issue)]
        /\ UNCHANGED <<disk, rankFrame>>

\* service.py:29-40  GET /rank/{issue}
service_rank ==
    \E issue \in RankIssues, top_k \in 1..MaxTopK, diverse \in BOOLEAN :
        /\ resp' =
            IF ~disk.state.exists
            THEN Respond("GET /rank", issue, top_k, diverse, FALSE,
                         Outcome("http_500", "FileNotFoundError", <<>>))
            ELSE LET st == load_state(disk.state) IN
                 IF issue \notin Range(st.issues)
                 THEN Respond("GET /rank", issue, top_k, diverse, TRUE,
                              Outcome("http_404", "not found in state", <<>>))
                 ELSE The({Respond("GET /rank", issue, top_k, diverse, TRUE,
                                   IF o.status = "ok" THEN Outcome("http_200", "", o.seeds)
                                   ELSE Outcome("http_500", o.detail, <<>>)) :
                             o \in {RankIssue(st, issue, top_k, diverse)}})
        /\ UNCHANGED <<disk, mem, memo, rankFrame>>

\* cli.py:28-42  rank-issue
cli_rank_issue ==
    \E issue \in RankIssues, top_k \in 1..MaxTopK, diverse \in BOOLEAN :
        /\ resp' =
            IF ~disk.state.exists
            THEN Respond("cli rank-issue", issue, top_k, diverse, FALSE,
                         Outcome("raised", "FileNotFoundError", <<>>))
            ELSE The({Respond("cli rank-issue", issue, top_k, diverse, TRUE, o) :
                        o \in {RankIssue(load_state(disk.state), issue, top_k, diverse)}})
        /\ UNCHANGED <<disk, mem, memo, rankFrame>>

Next ==
    \/ NextRun
    \/ pipeline_load_state \/ pipeline_rank_issue \/ service_rank \/ cli_rank_issue

Spec == Init /\ [][Next]_vars

\* C3: a pipeline.rank_issue call with the same state, issue, k and diverse
\* flag as an earlier call returns the same records in the same order (or
\* raises the same exception), whatever re-rank calls were made in between.
C3_RerankIdempotent ==
    (/\ resp.entry = "pipeline.rank_issue"
     /\ SameArgs(memo, resp.issue, resp.k, resp.diverse))
    => /\ resp.status = memo.status
       /\ resp.detail = memo.detail
       /\ resp.seeds = memo.seeds

\* C3 witness: a repeated call that returned two records, after a run.
C3_Witness ==
    /\ memo.set /\ memo.again
    /\ resp.entry = "pipeline.rank_issue"
    /\ SameArgs(memo, resp.issue, resp.k, resp.diverse)
    /\ resp.status = "ok" /\ Len(resp.seeds) = 2

StateFields ==
    {"issues", "pagerank", "communities", "user_meta", "post_issue_map",
     "user_issue_stats", "config"}

\* C4: re-rank calls leave every field of the loaded state object as the run
\* built it, and the state file as the run wrote it (absent before the run's
\* write): no re-rank call writes either.
C4_RankReadOnly ==
    /\ mem.loaded => \A f \in StateFields : mem.state[f] = json_dump(loc.state)[f]
    /\ disk.state.exists => /\ pc = "done"
                            /\ disk.state.content = json_dump(loc.state)
    /\ disk.csv.exists => /\ pc \in {"build_state", "write_state", "done", "failed"}
                          /\ disk.csv.content = loc.scores

\* C4 witness: the state was loaded and pipeline.rank_issue has answered, after
\* an earlier call, a request for an issue outside the state's list.
C4_Witness ==
    /\ mem.loaded /\ memo.set
    /\ resp.entry = "pipeline.rank_issue"
    /\ resp.issue \notin Range(mem.state.issues)

\* C7: every answer to a re-rank request for an issue that is not in the
\* persisted state's issue list is a "not found" report, on each entry point.
C7_UnknownIssueNotFound ==
    (/\ resp.entry # "none"
     /\ resp.state_found
     /\ resp.issue \notin Range(load_state(disk.state).issues))
    => resp.status = "http_404"

\* The HTTP handler alone reports an unknown issue as not found.
ServiceReportsNotFound ==
    (/\ resp.entry = "GET /rank"
     /\ resp.state_found
     /\ resp.issue \notin Range(load_state(disk.state).issues))
    => resp.status = "http_404"

UnknownIssueCrash ==
    /\ resp.entry \in {"cli rank-issue", "pipeline.rank_issue"}
    /\ resp.state_found
    /\ resp.issue \notin Range(load_state(disk.state).issues)
    /\ resp.status = "raised" /\ resp.detail = "KeyError"

UnknownIssueEmptyAnswer ==
    /\ resp.entry \in {"cli rank-issue", "pipeline.rank_issue"}
    /\ resp.state_found
    /\ resp.issue \notin Range(load_state(disk.state).issues)
    /\ resp.status = "ok" /\ resp.seeds = <<>>

----------------------------------------------------------------------------
(* Properties of a run: communities, score table, state document           *)

Ran(name) == \E i \in 1..Len(loc.steps) : loc.steps[i] = name

AccountSet == {loc.users.rows[i].user_id : i \in 1..Len(loc.users.rows)}

\* C11: once community detection has run, the ids of the community mapping
\* are exactly the accounts of the account table, each with one community id,
\* whatever the edge list.
C11_CommunityPartition ==
    (Ran("communities") /\ pc # "failed") => DOMAIN loc.comms = AccountSet

\* What the code gives instead: the mapping covers the nodes of the graph, the
\* accounts and every end point of an edge.
CommunitiesCoverGraphNodes ==
    (Ran("communities") /\ pc # "failed") =>
        /\ AccountSet \subseteq DOMAIN loc.comms
        /\ DOMAIN loc.comms =
              AccountSet \cup {loc.edges.rows[j].src_user_id : j \in 1..Len(loc.edges.rows)}
                         \cup {loc.edges.rows[j].dst_user_id : j \in 1..Len(loc.edges.rows)}

ForeignNodeInCommunities ==
    Ran("communities") /\ \E u \in DOMAIN loc.comms : u \notin AccountSet

----------------------------------------------------------------------------
(* Properties of the score table                                           *)

StatsIssues == UNION {DOMAIN sc_in.user_issue_stats[u] : u \in DOMAIN sc_in.user_issue_stats}

RowsOfPair(i, iss) ==
    {p \in 1..Len(sc_out.rows) :
        sc_out.rows[p].user_id = sc_in.users[i].user_id /\ sc_out.rows[p].issue = iss}

\* C12: the score table has exactly one record for every pair of an account of
\* the account table and an issue occurring anywhere in the statistics, and no
\* other record: |accounts| x |issues| rows, accounts without activity on the
\* issue included.
C12_OneRowPerPair ==
    Scored =>
        /\ Len(sc_out.rows) = NUsers * Cardinality(StatsIssues)
        /\ \A i \in 1..NUsers : \A iss \in StatsIssues : Cardinality(RowsOfPair(i, iss)) = 1
        /\ \A p \in 1..Len(sc_out.rows) :
              /\ sc_out.rows[p].issue \in StatsIssues
              /\ \E i \in 1..NUsers : sc_out.rows[p].user_id = sc_in.users[i].user_id
        /\ (NUsers > 0) => {sc_out.rows[p].issue : p \in 1..Len(sc_out.rows)} = StatsIssues

\* C12 witness: three accounts, two issues, one of them used only by a user
\* that is not an account, and an account with no activity at all.
C12_Witness ==
    /\ Scored /\ NUsers = 3
    /\ StatsIssues = {IssueX, IssueY}
    /\ 0 \in DOMAIN sc_in.user_issue_stats
    /\ \E i \in 1..NUsers : sc_in.users[i].user_id \notin DOMAIN sc_in.user_issue_stats
    /\ Len(sc_out.rows) = 6

\* The text of a content item; an item whose text cell is empty has none.
TextOf(cell) == IF cell = NaNCell THEN <<>> ELSE cell

\* Keyword kw occurs in the text, compared case-insensitively.
OccursIn(kw, text) ==
    \E p \in 1..(Len(text) + 1) :
        /\ p + Len(kw) - 1 <= Len(text)
        /\ \A i \in 1..Len(kw) : Lower(text[p + i - 1]) = Lower(kw[i])

\* The taxonomy issues none of whose keywords occurs in any content text.
AbsentIssues ==
    {inp.taxonomy[q].name : q \in
        {q \in 1..Len(inp.taxonomy) :
            \A j \in 1..Len(inp.taxonomy[q].kws) : \A i \in 1..Len(inp.posts.rows) :
                ~OccursIn(inp.taxonomy[q].kws[j], TextOf(inp.posts.rows[i].text))}}

\* C13: after scoring, no record of the score table carries a taxonomy issue
\* none of whose keywords occurs in any content text.
C13_AbsentIssueNotScored ==
    (Ran("score") /\ pc # "failed") =>
        \A p \in 1..Len(loc.scores) : loc.scores[p].issue \notin AbsentIssues

\* The same, on runs whose posts all have a text.
AbsentIssueNotScoredWhenTextsPresent ==
    (/\ Ran("score") /\ pc # "failed"
     /\ \A i \in 1..Len(inp.posts.rows) : inp.posts.rows[i].text # NaNCell)
    => \A p \in 1..Len(loc.scores) : loc.scores[p].issue \notin AbsentIssues

AbsentIssueRunScored ==
    /\ Ran("score") /\ pc # "failed" /\ Len(loc.scores) > 0
    /\ AbsentIssues # {}

Count(name) == Cardinality({i \in 1..Len(loc.steps) : loc.steps[i] = name})

BuildingSteps ==
    {"compliance", "tag", "aggregate", "centrality", "communities", "score"}

\* C14: a run writes the state document at most once, and a completed run
\* exactly once, as its last step, after the compliance check, tagging,
\* aggregation, centrality, community detection and scoring; once written, the
\* document stays what the run built, through every later step and every
\* re-rank call.
C14_StatePersistedOnceLast ==
    /\ Count("write_state") <= 1
    /\ pc = "done" <=> disk.state.exists
    /\ disk.state.exists <=> Count("write_state") = 1
    /\ disk.state.exists =>
          /\ loc.steps[Len(loc.steps)] = "write_state"
          /\ \A b \in BuildingSteps : Count(b) = 1
          /\ disk.state.content = json_dump(loc.state)
          /\ loc.state = StateDict(loc.taxonomy, loc.pr, loc.comms, loc.users.rows,
                                   loc.post_issue_map, loc.user_issue_stats, inp.cfg)

\* C14 witness: the document was written, loaded and re-ranked from by the
\* library call and then by the HTTP handler.
C14_Witness ==
    /\ disk.state.exists /\ mem.loaded /\ memo.set
    /\ resp.entry = "GET /rank" /\ resp.status = "http_200" /\ Len(resp.seeds) = 2

RowsOfIssue(rows, issue) == SelectSeq(rows, LAMBDA r : r.issue = issue)

ZeroAccounts == inp.users.rows = <<>>

\* C16: with zero accounts the centrality and community maps are empty, the
\* run completes with an empty score table, and every re-rank call on the
\* state persisted by such a run answers with an empty result, not an error.
C16_ZeroAccountsWellDefined ==
    ZeroAccounts =>
        /\ pc # "failed"
        /\ Ran("centrality") => loc.pr = <<>>
        /\ Ran("communities") => loc.comms = <<>>
        /\ Ran("score") => loc.scores = <<>>
        /\ (resp.entry # "none" /\ resp.state_found) =>
              /\ resp.status \in {"ok", "http_200", "http_404"}
              /\ resp.seeds = <<>>

\* With zero accounts and no edges the run itself is well defined.
ZeroAccountsRunCompletes ==
    (ZeroAccounts /\ inp.edges.rows = <<>>) =>
        /\ pc # "failed"
        /\ loc.pr = <<>> /\ loc.comms = <<>> /\ loc.scores = <<>>
        /\ pc = "done" => disk.csv.content = <<>>

ZeroAccountsRankRaises ==
    /\ ZeroAccounts /\ inp.edges.rows = <<>>
    /\ resp.entry = "pipeline.rank_issue" /\ resp.issue = <<"x">>
    /\ resp.status = "raised" /\ resp.detail = "KeyError"

ZeroAccountsService500 ==
    /\ ZeroAccounts /\ inp.edges.rows = <<>>
    /\ resp.entry = "GET /rank" /\ resp.issue = <<"x">>
    /\ resp.status = "http_500" /\ resp.detail = "KeyError"

----------------------------------------------------------------------------
(* Properties of the selector's order                                      *)

\* The non-diverse result is non-increasing in score.
Descending(df, out) ==
    \A p, q \in 1..Len(out) : p < q => ~RatLT(df[out[p]].score, df[out[q]].score)

\* Records of equal score are in the order of the input score table.
TiesInInputOrder(df, out) ==
    \A p, q \in 1..Len(out) :
        (p < q /\ df[out[p]].score = df[out[q]].score) => out[p] < out[q]

\* C17: the rows of a non-diverse result are in descending order of score, and
\* any two of them with equal score are in the same relative order as in the
\* input score table.
C17_StableDescendingSort ==
    (Called /\ ~sel_call.diverse) =>
        /\ Descending(scores_df, sel_out)
        /\ TiesInInputOrder(scores_df, sel_out)

\* The descending half of C17 holds on every build.
SortIsDescending ==
    (Called /\ ~sel_call.diverse) => Descending(scores_df, sel_out)

\* On a build whose quicksort happens to keep equal keys in place the whole of
\* C17 holds.
TiesKeptWhereQuicksortKeepsThem ==
    (Called /\ ~sel_call.diverse /\ ties = "input_order") =>
        TiesInInputOrder(scores_df, sel_out)

\* A non-diverse result with two rows of equal score against the input order.
EqualScoresOutOfInputOrder ==
    /\ Called /\ ~sel_call.diverse
    /\ \E p, q \in 1..Len(sel_out) :
          /\ p < q /\ scores_df[sel_out[p]].score = scores_df[sel_out[q]].score
          /\ sel_out[p] > sel_out[q]

\* The groups of the specification over the sorted rows of an issue: one per
\* community id, the rows without a community forming one group.
Members(df, rows, g) == SelectSeq(rows, LAMBDA i : CommunityGroup(df, i) = g)

GroupsOf(df, rows) == {CommunityGroup(df, rows[p]) : p \in 1..Len(rows)}

FirstSeen(df, rows, g) ==
    CHOOSE p \in 1..Len(rows) :
        /\ CommunityGroup(df, rows[p]) = g
        /\ \A q \in 1..(p - 1) : CommunityGroup(df, rows[q]) # g

\* Group g is swept before group h: it has more rows, or as many and its first
\* row comes earlier in the sorted rows.
SweptBefore(df, rows, g, h) ==
    LET ng == Len(Members(df, rows, g))
        nh == Len(Members(df, rows, h))
    IN \/ ng > nh
       \/ (ng = nh /\ FirstSeen(df, rows, g) < FirstSeen(df, rows, h))

\* Position, in the concatenation of the sweeps, of the n-th row of group g:
\* after the rows the earlier sweeps took and after the rows this sweep took
\* from the groups before g.
SweepPosition(df, rows, g, n) ==
    LET G == GroupsOf(df, rows)
        earlier == {e \in G \X (1..Len(rows)) :
                        e[2] < n /\ e[2] <= Len(Members(df, rows, e[1]))}
        ahead == {h \in G : /\ h # g
                            /\ Len(Members(df, rows, h)) >= n
                            /\ SweptBefore(df, rows, h, g)}
    IN Cardinality(earlier) + Cardinality(ahead) + 1

\* out is the first k elements of the concatenation of the sweeps.
IsSweepPrefix(df, rows, k, out) ==
    /\ Len(out) = Min2(k, Len(rows))
    /\ \A g \in GroupsOf(df, rows) : \A n \in 1..Len(Members(df, rows, g)) :
          LET p == SweepPosition(df, rows, g, n)
          IN p <= Len(out) => out[p] = Members(df, rows, g)[n]

\* C18: a diverse result is the first k elements of the concatenation of the
\* sweeps over the community groups, ordered by descending size and then by
\* first appearance in the sorted rows, each sweep taking the next row of every
\* group that still has one; so its first record is the top record of the
\* largest community.
C18_DiverseIsSweepPrefix ==
    (Called /\ sel_call.diverse) =>
        IsSweepPrefix(scores_df, SortedRows(scores_df, sel_call.issue),
                      sel_call.k, sel_out)

\* C18 on tables where every row has a community id.
SweepPrefixWhenAllCommunitiesKnown ==
    (/\ Called /\ sel_call.diverse
     /\ \A i \in 1..Len(scores_df) : scores_df[i].community # NoneCell)
    => IsSweepPrefix(scores_df, SortedRows(scores_df, sel_call.issue),
                     sel_call.k, sel_out)

\* A diverse result whose first record is not the top record of the largest
\* group: the larger group is the one of the rows without a community.
FirstRecordNotOfLargestGroup ==
    /\ Called /\ sel_call.diverse /\ Len(sel_out) >= 1
    /\ LET rows == SortedRows(scores_df, sel_call.issue)
       IN \E g \in GroupsOf(scores_df, rows) :
             /\ \A h \in GroupsOf(scores_df, rows) \ {g} :
                    SweptBefore(scores_df, rows, g, h)
             /\ sel_out[1] # Members(scores_df, rows, g)[1]

\* Positions of the result that hold a row without a community id.
NullRows(df, out) == {p \in 1..Len(out) : df[out[p]].community = NoneCell}

\* Between two rows without a community, every community that still has rows
\* left contributes a row: the rows without a community take one turn per
\* sweep, as one group.
OneNullPerSweep(df, issue, out) ==
    \A p, q \in NullRows(df, out) :
        p < q =>
            \A g \in {CommunityGroup(df, i) : i \in FilterIssue(df, issue)} \ {NoneCell} :
                \/ \E m \in (p + 1)..(q - 1) : CommunityGroup(df, out[m]) = g
                \/ CountIn(df, Prefix(out, q), g) = Supply(df, issue, g)

\* C19: in diverse mode the rows without a community id form one group: they
\* contribute at most one record per sweep, so between two of them in the
\* result every community that still has rows contributes one.
C19_NullCommunityOneGroup ==
    (Called /\ sel_call.diverse) =>
        OneNullPerSweep(scores_df, sel_call.issue, sel_out)

\* Two rows without a community taken next to each other while a community
\* with rows left is waiting.
TwoNullRowsInOneSweep ==
    /\ Called /\ sel_call.diverse
    /\ \E p \in 1..(Len(sel_out) - 1) :
          /\ scores_df[sel_out[p]].community = NoneCell
          /\ scores_df[sel_out[p + 1]].community = NoneCell
          /\ \E i \in FilterIssue(scores_df, sel_call.issue) :
                /\ scores_df[i].community # NoneCell
                /\ i \notin Range(sel_out)

----------------------------------------------------------------------------
(* The tagger as a pure function: KeywordTagger.tag_posts_by_issue and      *)
(* nlp.topics.tag_posts_by_issue on a taxonomy read by load_taxonomy        *)

MaxTextLen == 2
MaxPosts == 2

TagChars == {"x", "X", "n"}

\* The text cells of posts.csv as pd.read_csv returns them: a string, or NaN
\* for an empty cell.
TagTexts == SeqsUpTo(TagChars, MaxTextLen) \cup {NaNCell}

\* Content tables of one to MaxPosts items with distinct ids.
TagPosts ==
    UNION {{[i \in 1..n |-> PostRow(i, 1, t[i])] : t \in [1..n -> TagTexts]} :
           n \in 1..MaxPosts}

TagKeywords == {<<"X">>, <<"n">>, <<"x", "n">>, <<"a", "n">>}

\* The issues mapping of the taxonomy file: no issue, issue x, issue x with
\* two keywords, issues x and y in this order.
TagTaxonomies ==
    {<<>>}
    \cup {<<IssueEntry(<<"x">>, <<k>>)>> : k \in TagKeywords}
    \cup {<<IssueEntry(<<"x">>, <<k1, k2>>)>> : k1 \in TagKeywords, k2 \in TagKeywords}
    \cup {<<IssueEntry(<<"x">>, <<k1>>), IssueEntry(<<"y">>, <<k2>>)>> :
              k1 \in TagKeywords, k2 \in TagKeywords}

NotTagged == [by |-> "none", map |-> <<>>]

InitTag ==
    /\ tag_in \in [posts : TagPosts, taxonomy : TagTaxonomies]
    /\ tag_out = NotTagged
    /\ scores_df = Unused /\ sel_call = Unused /\ sel_out = Unused
    /\ sc_in = Unused /\ sc_out = Unused /\ ties = Unused
    /\ inp = Unused /\ pc = Unused /\ loc = Unused /\ disk = Unused
    /\ mem = Unused /\ resp = Unused /\ memo = Unused /\ log = Unused

tagFrame == <<tag_in, selVars, scVars, pipeVars, ties>>

\* plugins/keyword.py:5-14
KeywordTagger_tag_posts_by_issue ==
    /\ tag_out = NotTagged
    /\ tag_out' = [by |-> "KeywordTagger.tag_posts_by_issue",
                   map |-> tag_posts_by_issue(tag_in.posts, load_taxonomy(tag_in.taxonomy))]
    /\ UNCHANGED tagFrame

\* nlp/topics.py:12-21, the same body.
topics_tag_posts_by_issue ==
    /\ tag_out = NotTagged
    /\ tag_out' = [by |-> "topics.tag_posts_by_issue",
                   map |-> tag_posts_by_issue(tag_in.posts, load_taxonomy(tag_in.taxonomy))]
    /\ UNCHANGED tagFrame

NextTag == KeywordTagger_tag_posts_by_issue \/ topics_tag_posts_by_issue

SpecTag == InitTag /\ [][NextTag]_vars

Tagged == tag_out.by # "none"

\* Issue q of the taxonomy has a keyword that occurs in the item's text,
\* compared case-insensitively.
IssueOccurs(tax, q, cell) ==
    \E j \in 1..Len(tax[q].kws) : OccursIn(tax[q].kws[j], TextOf(cell))

\* m is the subsequence, in taxonomy order and without repeats, of the names of
\* the issues that occur in the item's text.
IsMatchedList(m, tax, cell) ==
    LET hit == {q \in 1..Len(tax) : IssueOccurs(tax, q, cell)}
    IN /\ Len(m) = Cardinality(hit)
       /\ \A p \in 1..Len(m) :
             \E q \in hit : /\ m[p] = tax[q].name
                            /\ p = Cardinality({h \in hit : h <= q})

\* C20: for every content item and taxonomy, the tagger's list for the item is
\* the subsequence, in taxonomy order and without repeats, of the issues with
\* a keyword occurring in the item's text compared case-insensitively; an item
\* that matches nothing gets the empty list.
C20_TaggerMatchesSubstrings ==
    Tagged =>
        /\ DOMAIN tag_out.map = {tag_in.posts[i].post_id : i \in 1..Len(tag_in.posts)}
        /\ \A i \in 1..Len(tag_in.posts) :
              IsMatchedList(tag_out.map[tag_in.posts[i].post_id],
                            tag_in.taxonomy, tag_in.posts[i].text)

\* C20 for the items that have a text.
TaggerMatchesSubstringsOfTexts ==
    Tagged =>
        \A i \in 1..Len(tag_in.posts) :
            tag_in.posts[i].text # NaNCell =>
                IsMatchedList(tag_out.map[tag_in.posts[i].post_id],
                              tag_in.taxonomy, tag_in.posts[i].text)

\* An item without a text that is tagged with an issue.
TextlessItemTagged ==
    /\ Tagged
    /\ \E i \in 1..Len(tag_in.posts) :
          /\ tag_in.posts[i].text = NaNCell
          /\ tag_out.map[tag_in.posts[i].post_id] # <<>>

\* An item matched by two issues through keywords and text of different case.
TwoIssuesMatched ==
    /\ Tagged
    /\ \E i \in 1..Len(tag_in.posts) :
          /\ tag_in.posts[i].text = <<"x", "n">>
          /\ tag_out.map[tag_in.posts[i].post_id] = << <<"x">>, <<"y">> >>

----------------------------------------------------------------------------
(* Tagging followed by aggregation (pipeline.py:40-41) on content lists in  *)
(* which identifiers may repeat                                            *)

MaxItems == 3

AggTexts == {<<"X">>, <<"n">>, <<"x", "n">>}

\* A content item: identifier, author, text and likes; shares 1, comments 0.
AggRows ==
    {[PostRow(id, uid, t) EXCEPT !.likes = l] :
        id \in {1, 2}, uid \in {1, 2}, t \in AggTexts, l \in {1, 2}}

AggTaxonomies ==
    {<<IssueEntry(<<"x">>, <<<<"X">>>>)>>,
     <<IssueEntry(<<"x">>, <<<<"X">>>>), IssueEntry(<<"y">>, <<<<"n">>>>)>>,
     <<IssueEntry(<<"x">>, <<<<"n">>>>), IssueEntry(<<"y">>, <<<<"x", "n">>>>)>>}

\* The bijections of 1..n: the orders a list of n items can be handed over in.
Perms(n) == {f \in [1..n -> 1..n] : \A i, j \in 1..n : f[i] = f[j] => i = j}

Permute(posts, f) == [i \in 1..Len(posts) |-> posts[f[i]]]

InitAgg ==
    /\ \E n \in 1..MaxItems : \E rows \in [1..n -> AggRows], tax \in AggTaxonomies :
          tag_in = [posts |-> rows, taxonomy |-> tax]
    /\ tag_out = NotTagged
    /\ scores_df = Unused /\ sel_call = Unused /\ sel_out = Unused
    /\ sc_in = Unused /\ sc_out = Unused /\ ties = Unused
    /\ inp = Unused /\ pc = Unused /\ loc = Unused /\ disk = Unused
    /\ mem = Unused /\ resp = Unused /\ memo = Unused /\ log = Unused

\* pipeline.py:40  post_issue_map = tagger.tag_posts_by_issue(posts, taxonomy)
TagItems ==
    /\ tag_out = NotTagged
    /\ tag_out' = [by |-> "tagged",
                   map |-> tag_posts_by_issue(tag_in.posts, load_taxonomy(tag_in.taxonomy))]
    /\ UNCHANGED tagFrame

\* pipeline.py:41  compute_user_issue_stats(posts, post_issue_map), the items
\* handed over in any order, the map being the one the tagger returned.
AggregateItems ==
    /\ tag_out.by = "tagged"
    /\ \E f \in Perms(Len(tag_in.posts)) :
          tag_out' = [by |-> "aggregated", map |-> tag_out.map, order |-> f,
                      stats |-> compute_user_issue_stats(Permute(tag_in.posts, f),
                                                         tag_out.map)]
    /\ UNCHANGED tagFrame

NextAgg == TagItems \/ AggregateItems

SpecAgg == InitAgg /\ [][NextAgg]_vars

Aggregated == tag_out.by = "aggregated"

\* The items by author u whose text holds a keyword of issue q.
MatchingItems(u, q) ==
    {i \in 1..Len(tag_in.posts) :
        /\ tag_in.posts[i].user_id = u
        /\ IssueOccurs(tag_in.taxonomy, q, tag_in.posts[i].text)}

Engagement(row) == row.likes + row.shares + row.comments

RECURSIVE EngagementOver(_)
EngagementOver(S) ==
    IF S = {} THEN 0
    ELSE LET i == CHOOSE j \in S : TRUE
         IN Engagement(tag_in.posts[i]) + EngagementOver(S \ {i})

HasEntry(stats, u, name) == u \in DOMAIN stats /\ name \in DOMAIN stats[u]

CountsItems(stats) ==
    \A u \in {1, 2} : \A q \in 1..Len(tag_in.taxonomy) :
        LET items == MatchingItems(u, q)
            name == tag_in.taxonomy[q].name
        IN IF items = {} THEN ~HasEntry(stats, u, name)
           ELSE /\ HasEntry(stats, u, name)
                /\ stats[u][name].count = Cardinality(items)
                /\ stats[u][name].eng_sum = EngagementOver(items)

\* C21: after tagging and aggregating a list of content items, also one in
\* which two items carry the same identifier, the count of every (author,
\* issue) is the number of the author's items that matched the issue, eng_sum
\* the sum of likes + shares + comments over those items, and a pair without a
\* matching item has no entry.
C21_StatsCountMatchingItems == Aggregated => CountsItems(tag_out.stats)

DistinctIds ==
    \A i, j \in 1..Len(tag_in.posts) :
        tag_in.posts[i].post_id = tag_in.posts[j].post_id => i = j

\* C21 on lists whose items have distinct identifiers.
StatsCountMatchingItemsOfDistinctIds ==
    (Aggregated /\ DistinctIds) => CountsItems(tag_out.stats)

\* An item that matched an issue and is not counted: a later item with the
\* same identifier matched nothing.
MatchingItemNotCounted ==
    /\ Aggregated
    /\ \E u \in {1, 2} : \E q \in 1..Len(tag_in.taxonomy) :
          /\ MatchingItems(u, q) # {}
          /\ ~HasEntry(tag_out.stats, u, tag_in.taxonomy[q].name)

\* C22: for a fixed post-issue map, the items handed over in any order yield
\* the same table: the same (author, issue) keys with the same count and
\* eng_sum as the items in their original order.
C22_AggregationOrderIndependent ==
    Aggregated => tag_out.stats = compute_user_issue_stats(tag_in.posts, tag_out.map)

\* C22 witness: three items aggregated in another order than the given one, an
\* author having two items of different engagement counted for one issue.
C22_Witness ==
    /\ Aggregated
    /\ Len(tag_in.posts) = 3
    /\ tag_out.order # [i \in 1..3 |-> i]
    /\ \E u \in DOMAIN tag_out.stats : \E iss \in DOMAIN tag_out.stats[u] :
          /\ tag_out.stats[u][iss].count = 2
          /\ tag_out.stats[u][iss].eng_sum = 5

----------------------------------------------------------------------------
(* Properties of the centrality step                                       *)

\* The step at which the run failed, if it failed.
FailedAt(name) == pc = "failed" /\ loc.steps[Len(loc.steps)] = name

\* C23: when the PageRank computation fails on a non-empty graph, the
\* centrality step does not fail: the mapping it returns has exactly the N
\* nodes of the graph as keys, each with the value 1/N, and the run goes on.
C23_UniformFallback ==
    (Ran("centrality") /\ loc.pr_raised) =>
        LET nodes == GraphNodes(loc.users.rows, loc.edges.rows)
        IN /\ ~FailedAt("centrality")
           /\ Len(nodes) > 0
           /\ DOMAIN loc.pr = Range(nodes)
           /\ \A u \in Range(nodes) : loc.pr[u] = Rat(1, Len(nodes))

\* C23 witness: a run whose PageRank computation failed on a graph of four
\* nodes scored the accounts and wrote the score table and the state document.
C23_Witness ==
    /\ pc = "done" /\ loc.pr_raised
    /\ Len(GraphNodes(loc.users.rows, loc.edges.rows)) = 4
    /\ Ran("score") /\ disk.csv.exists /\ disk.state.exists
    /\ disk.state.content.pagerank = loc.pr

\* An entry of the log that reports the uniform fallback.
DegradationEntries == {"pagerank_fallback", "pagerank_failed", "degradation"}

\* C24: whenever the PageRank computation failed and the uniform fallback was
\* used, the log holds a degradation entry for it.
C24_FallbackIsLogged ==
    (Ran("centrality") /\ loc.pr_raised) =>
        \E i \in 1..Len(log) : log[i] \in DegradationEntries

\* The only record a run emits is pipeline_complete, after the state document
\* is written.
OnlyCompletionIsLogged ==
    /\ \A i \in 1..Len(log) : log[i] = "pipeline_complete"
    /\ Len(log) = IF pc = "done" THEN 1 ELSE 0

\* A completed run that used the fallback and logged the completion only.
FallbackRunLogsCompletionOnly ==
    /\ pc = "done" /\ loc.pr_raised /\ log = <<"pipeline_complete">>

----------------------------------------------------------------------------
(* Properties of the selector's result                                     *)

NoRowTwice(out) == \A p, q \in 1..Len(out) : out[p] = out[q] => p = q

\* C25: for every k >= 0 and both modes the result has exactly min(k, n)
\* records, n being the number of rows of the requested issue; every record is
\* one of these rows, and no row is returned twice.
C25_ExactlyMinKN ==
    Called =>
        LET rows == FilterIssue(scores_df, sel_call.issue)
        IN /\ Len(sel_out) = Min2(sel_call.k, Cardinality(rows))
           /\ Range(sel_out) \subseteq rows
           /\ NoRowTwice(sel_out)

\* C25 witness: a table of three rows, two of them of the requested issue; a
\* non-diverse call with k = 1 answered with one of the two.
C25_Witness ==
    /\ Called /\ ~sel_call.diverse /\ sel_call.k = 1
    /\ Cardinality(FilterIssue(scores_df, sel_call.issue)) = 2
    /\ Len(scores_df) = 3
    /\ Len(sel_out) = 1

\* C25 second case: a diverse call with k above the number of rows returns
\* every row of the issue once.
DiverseReturnsAllRows ==
    /\ Called /\ sel_call.diverse /\ sel_call.k = 4
    /\ Cardinality(FilterIssue(scores_df, sel_call.issue)) = 3
    /\ Len(sel_out) = 3

\* Position of row i in the sorted rows.
SortedPos(rows, i) == CHOOSE p \in 1..Len(rows) : rows[p] = i

\* The rows taken from one community are its first rows in the sorted order,
\* taken in that order.
CommunityPrefixes(df, rows, out) ==
    \A p \in 1..Len(out) : \A j \in Range(rows) :
        (/\ CommunityGroup(df, j) = CommunityGroup(df, out[p])
         /\ SortedPos(rows, j) < SortedPos(rows, out[p]))
        => \E q \in 1..(p - 1) : out[q] = j

\* C26: in diverse mode, if a record of a community is in the result, every
\* record of that community that precedes it in the sorted order is in the
\* result too, and earlier.
C26_CommunityTopPrefix ==
    (Called /\ sel_call.diverse) =>
        CommunityPrefixes(scores_df, SortedRows(scores_df, sel_call.issue), sel_out)

\* C26 witness: three rows of one community, the first of a lower score than
\* the second; a diverse call with k = 2 returns the second row, then the first.
C26_Witness ==
    /\ Called /\ sel_call.diverse /\ sel_call.k = 2
    /\ Len(scores_df) = 3
    /\ \A i \in 1..3 : /\ scores_df[i].issue = sel_call.issue
                       /\ scores_df[i].community = IntCell(0)
    /\ RatLT(scores_df[1].score, scores_df[2].score)
    /\ sel_out = <<2, 1>>

----------------------------------------------------------------------------
(* Properties of the re-rank entry points' selection mode                  *)

Answered == resp.status \in {"ok", "http_200"}

\* The records of the rows picked from the table, diverse or not.
PickedDiverse(rows, issue, k) ==
    Rows(rows, round_robin_by_group(rows, SortedRows(rows, issue), k))

PickedTopK(rows, issue, k) == Rows(rows, Head_k(SortedRows(rows, issue), k))

\* C27: rank_issue selects diversely only if the caller's diverse flag and the
\* enforce_diversity setting stored in the state's config are both true; with
\* the stored setting false, a call with diverse = true returns exactly the
\* non-diverse top k.
C27_DiverseNeedsBothFlags ==
    (Answered /\ disk.state.exists) =>
        \A st \in {load_state(disk.state)} : \A r \in {Rescore(st)} :
            resp.seeds =
                IF resp.diverse /\ st.config.enforce_diversity
                THEN PickedDiverse(r.rows, resp.issue, resp.k)
                ELSE PickedTopK(r.rows, resp.issue, resp.k)

\* C27 witness: the stored enforce_diversity is false, the call asked for a
\* diverse selection of two, and the diverse selection would have differed from
\* the top two that were returned.
C27_Witness ==
    /\ Answered /\ disk.state.exists
    /\ resp.entry = "pipeline.rank_issue"
    /\ resp.diverse /\ resp.k = 2
    /\ ~disk.state.content.config.enforce_diversity
    /\ Len(resp.seeds) = 2
    /\ resp.seeds # PickedDiverse(disk.csv.content, resp.issue, resp.k)

----------------------------------------------------------------------------
(* Properties of the scorer's issue set                                    *)

AccountIds == {sc_in.users[i].user_id : i \in 1..NUsers}

\* The issues of the statistics that no account has an entry for: they were
\* tagged on content of authors outside the account table only.
ForeignOnlyIssues ==
    {iss \in StatsIssues :
        \A u \in DOMAIN sc_in.user_issue_stats :
            iss \in DOMAIN sc_in.user_issue_stats[u] => u \notin AccountIds}

\* C28: the scorer takes its issues from every author of the statistics, in the
\* account table or not: an issue tagged only on content of authors outside the
\* account table has one record per account, each with engagement 0 and
\* salience 0.
C28_ForeignIssueScoredAtZero ==
    Scored =>
        \A iss \in ForeignOnlyIssues : \A i \in 1..NUsers :
            /\ Cardinality(RowsOfPair(i, iss)) = 1
            /\ \A p \in RowsOfPair(i, iss) :
                  /\ sc_out.rows[p].engagement = Zero
                  /\ sc_out.rows[p].salience = Zero

\* C28 witness: three accounts of different follower counts, one of them with
\* activity on issue x, and issue y tagged on an outside author's content only;
\* the table has a record of issue y for each of the three accounts.
C28_Witness ==
    /\ Scored /\ NUsers = 3
    /\ ForeignOnlyIssues = {IssueY}
    /\ IssueX \in StatsIssues
    /\ sc_in.users[1].followers # sc_in.users[2].followers
    /\ \A i \in 1..NUsers : Cardinality(RowsOfPair(i, IssueY)) = 1

----------------------------------------------------------------------------
(* Properties of the compliance switch                                     *)

\* A deny-listed keyword stands as a whole word in the issue names: the
\* compliance check, when it runs, raises.
CheckWouldRaise ==
    assert_non_political(TaxonomyKeys(load_taxonomy(inp.taxonomy)),
                         inp.cfg.deny_keywords) # 0

\* C29: with disallow_political_persuasion false the run performs no
\* compliance check: it never fails at the compliance step, whatever the issue
\* names are, and a completed run has written the score table and the state
\* document.
C29_NoCheckWhenFlagOff ==
    ~inp.cfg.disallow_political_persuasion =>
        /\ ~FailedAt("compliance")
        /\ loc.error.kind # "RuntimeError: Compliance check failed"
        /\ pc = "done" => disk.csv.exists /\ disk.state.exists

\* C29 witness: the flag is false, an issue name holds a deny-listed keyword
\* that the check would have raised on, and the run has written the score
\* table and the state document.
C29_Witness ==
    /\ ~inp.cfg.disallow_political_persuasion
    /\ NameContainsDenyKeyword /\ CheckWouldRaise
    /\ pc = "done" /\ disk.csv.exists /\ disk.state.exists

----------------------------------------------------------------------------
(* Order of the two writes of a run                                        *)

StepPos(name) == CHOOSE i \in 1..Len(loc.steps) : loc.steps[i] = name

\* C30: in a run on a fresh output directory state.json is written only after
\* issue_scores.csv has been written: at every point of the run, also after a
\* failure at any step, the state document is present only if the score table
\* is, and the write of the table came first.
C30_StateImpliesScores ==
    /\ disk.state.exists =>
          /\ disk.csv.exists
          /\ Ran("write_csv") /\ Ran("write_state")
          /\ StepPos("write_csv") < StepPos("write_state")
    /\ Ran("write_state") => Ran("write_csv")
    /\ ~Ran("write_csv") => (~disk.csv.exists /\ ~disk.state.exists)

\* C30 witness: a completed run with both files, the table holding records.
C30_Witness ==
    /\ pc = "done" /\ disk.state.exists /\ disk.csv.exists
    /\ Len(disk.csv.content) >= 3
    /\ loc.steps[Len(loc.steps)] = "write_state"

\* A run that failed after the score table was written and before the state
\* document was: the table is present without the document, never the reverse.
FailedBetweenTheWrites ==
    /\ FailedAt("build_state")
    /\ disk.csv.exists /\ ~disk.state.exists

====
